---- MODULE Spec2Model ----
(***************************************************************************)
(* TackTile: boards of bookmarks kept in IndexedDB (db.ts), shared as a    *)
(* compressed link payload or a JSON file (share.ts), enriched by a        *)
(* best-effort metadata fetch (metadata.ts).                               *)
(*                                                                         *)
(* Every IndexedDB transaction of the code is one atomic step; every await *)
(* between two transactions is a point where another task may run.         *)
(***************************************************************************)
EXTENDS Integers, Sequences, FiniteSets, TLC

(* ---------------------------------------------------------------------- *)
(* Bounds                                                                  *)
(* ---------------------------------------------------------------------- *)
MaxBoards == 2
MaxBookmarks == 2

\* identifiers the id generator can hand out; the order of the numbers is the
\* order of the UUID strings, which is the key order of the object stores
BoardIds == 1 .. MaxBoards
BookmarkIds == (MaxBoards + 1) .. (MaxBoards + MaxBookmarks)

ImportProcs == {"i1", "i2"}
DelProcs == {"d1"}
FetchProcs == {"f1"}

(* ---------------------------------------------------------------------- *)
(* Values                                                                  *)
(* ---------------------------------------------------------------------- *)
\* the JavaScript value undefined, for a text field
Undef == "undefined"
\* the JavaScript value undefined, for a tags field
NoTags == <<"undefined">>
BoardNames == {"A"}

VARIABLES
  boards,      \* object store 'boards':     id -> Board
  bookmarks,   \* object store 'bookmarks':  id -> Bookmark
  metadata,    \* object store 'metadata':   bookmarkId -> BookmarkMetadata
  thumbnails,  \* object store 'thumbnails': bookmarkId -> BookmarkThumbnail
  issued,      \* identifiers generateId has returned so far
  log,         \* history: the ids of the bookmarks in the store, in the order
               \* their records were added
  imp,         \* the importBoard / importFromFile calls
  del,         \* the deleteBoard / deleteBookmark calls
  fetch,       \* the fetchMetadata calls
  exp,         \* the exportBoard / exportToFile calls
  cache,       \* how the last clearCache call settled
  nav,         \* the session history, the router and the import route's handlers
  codec,       \* a base64url text, a byte sequence or a payload under conversion
  got,         \* what the last get or list call of the store returned
  router,      \* the routes registered with the router and its last dispatch
  db           \* dbInstance, the open requests made and each operation's handle

store == <<boards, bookmarks, metadata, thumbnails>>
\* what the store, the id generator and the import, delete and fetch calls leave alone
rest == <<exp, cache, nav, codec, got, router, db>>
vars == <<boards, bookmarks, metadata, thumbnails, issued, log, imp, del, fetch, rest>>

(* ---------------------------------------------------------------------- *)
(* IndexedDB object store requests                                         *)
(* ---------------------------------------------------------------------- *)
EmptyStore == <<>>

\* store.add(rec): the request errors (ConstraintError) when the key exists
CanAdd(region, key) == key \notin DOMAIN region

StorePut(region, key, rec) ==
  [k \in DOMAIN region \cup {key} |-> IF k = key THEN rec ELSE region[k]]

\* store.delete(key): succeeds whether or not the key is present
StoreDelete(region, key) ==
  [k \in DOMAIN region \ {key} |-> region[k]]

RECURSIVE KeyOrder(_)
KeyOrder(S) ==
  IF S = {} THEN <<>>
  ELSE LET m == CHOOSE x \in S : \A y \in S : x <= y
       IN <<m>> \o KeyOrder(S \ {m})

\* getAll() without a key range: every record of the index
IndexGetAllUnkeyed(region, boardId) ==
  LET ids == KeyOrder(DOMAIN region)
  IN [i \in 1 .. Len(ids) |-> region[ids[i]]]

\* index('boardId').getAll(boardId): the records whose index key is boardId,
\* in ascending order of primary key
IndexGetAll(region, boardId) ==
  LET ids == KeyOrder({id \in DOMAIN region : region[id].boardId = boardId})
  IN [i \in 1 .. Len(ids) |-> region[ids[i]]]

\* crypto.randomUUID(): any identifier of the pool that was never returned before
GenerateId(pool) == pool \ issued

Board(id, name) == [id |-> id, name |-> name]

Bookmark(id, url, boardId, notes, tags) ==
  [id |-> id, url |-> url, boardId |-> boardId, notes |-> notes, tags |-> tags]

(* ---------------------------------------------------------------------- *)
(* Payloads (share.ts)                                                     *)
(* ---------------------------------------------------------------------- *)
\* the only version importBoard and importFromFile accept
SupportedVersion == 1

\* one element of data.bookmarks: an object, or the JSON value null
Entry(url, notes, tags) ==
  [t |-> "object", url |-> url, notes |-> notes, tags |-> tags]
NullEntry == [t |-> "null", url |-> Undef, notes |-> Undef, tags |-> NoTags]

\* data.bookmarks: an array, absent, or a value that is not iterable ({} or 5)
BmArray(s) == [t |-> "array", v |-> s]
BmMissing == [t |-> "undefined", v |-> <<>>]
BmObject == [t |-> "object", v |-> <<>>]

\* the value JSON.parse returns; version 0 stands for an absent version
Data(version, name, bms) == [version |-> version, name |-> name, bookmarks |-> bms]

\* A payload text, described by what each decoding stage does on it:
\* atob accepts it, the deflate-raw stream inflates, JSON.parse returns data.
\* A file carries the JSON text itself: only parse and data apply to it.
Text(atob, inflate, parse, data) ==
  [atob |-> atob, inflate |-> inflate, parse |-> parse, data |-> data]

E1 == Entry("u1", "n1", NoTags)
E2 == Entry("u2", Undef, <<"t1">>)
ENoUrl == Entry(Undef, "n1", NoTags)
\* an entry with an empty notes text and an empty tags list
E3 == Entry("u2", "", <<>>)
\* an entry whose url is a text that is no absolute url
EBad == Entry("not a url", Undef, NoTags)

D0 == Data(1, "A", BmArray(<<>>))
D1 == Data(1, "A", BmArray(<<E1>>))
D2 == Data(1, "A", BmArray(<<E1, E2>>))
D3 == Data(1, "A", BmArray(<<E3>>))

ValidData == {D0, D1, D2, D3}
VersionData == {Data(2, "A", BmArray(<<E1>>)), Data(0, "A", BmArray(<<E1>>))}
InvalidData ==
  { Data(1, "A", BmMissing),
    Data(1, "A", BmObject),
    Data(1, "A", BmArray(<<E1, NullEntry>>)),
    Data(1, "A", BmArray(<<ENoUrl>>)),
    Data(1, Undef, BmArray(<<E1>>)) }

BadUrlData == {Data(1, "A", BmArray(<<EBad>>))}

JsonTexts ==
  {Text(TRUE, TRUE, TRUE, d) : d \in ValidData \cup VersionData \cup InvalidData \cup BadUrlData}
MalformedTexts ==
  { Text(FALSE, TRUE, TRUE, D1),
    Text(TRUE, FALSE, TRUE, D1),
    Text(TRUE, TRUE, FALSE, D1) }

LinkTexts == JsonTexts \cup MalformedTexts
FileTexts == JsonTexts \cup {Text(TRUE, TRUE, FALSE, D1)}

(* ---------------------------------------------------------------------- *)
(* importBoard / importFromFile (share.ts)                                 *)
(* ---------------------------------------------------------------------- *)
ImpIdle == [pc |-> "idle", kind |-> "link", text |-> Text(TRUE, TRUE, TRUE, D0),
            board |-> 0, k |-> 0, err |-> "none"]

Failed(c, err) == [c EXCEPT !.pc = "failed", !.err = err]

\* fromBase64Url: atob throws on a text it does not accept
fromBase64Url(text) == IF text.atob THEN "bytes" ELSE "InvalidCharacterError"

\* decompress: the stream errors on bytes that are no deflate-raw stream
decompress(text) == IF text.inflate THEN "json" ELSE "TypeError"

\* a parse error swallowed: the text is taken as parsed
ParseAndCheckLenient(text) ==
  IF text.parse /\ text.data.version # SupportedVersion
  THEN "Unsupported export version"
  ELSE "none"

\* only newer versions rejected: an absent version passes
ParseAndCheckNewer(text) ==
  IF ~text.parse THEN "SyntaxError"
  ELSE IF text.data.version > SupportedVersion THEN "Unsupported export version"
  ELSE "none"

\* JSON.parse and the version check that follows it: the error thrown, or "none"
ParseAndCheck(text) ==
  IF ~text.parse THEN "SyntaxError"
  ELSE IF text.data.version # SupportedVersion THEN "Unsupported export version"
  ELSE "none"

\* where the loop `for (const bookmark of data.bookmarks)` stands before its
\* k-th round: the error thrown, "done" when the loop is over, or "createBookmark"
LoopAt(data, k) ==
  IF data.bookmarks.t # "array" THEN "TypeError"
  ELSE IF k > Len(data.bookmarks.v) THEN "done"
  ELSE IF data.bookmarks.v[k].t = "null" THEN "TypeError"
  ELSE "createBookmark"

\* the loop taking its first entry again after every createBookmark
ContinueAgain(c, k) ==
  LET at == LoopAt(c.text.data, 1)
  IN IF at = "TypeError" THEN Failed([c EXCEPT !.k = 1], "TypeError")
     ELSE [c EXCEPT !.pc = at, !.k = 1]

Continue(c, k) ==
  LET at == LoopAt(c.text.data, k)
  IN IF at = "TypeError" THEN Failed([c EXCEPT !.k = k], "TypeError")
     ELSE [c EXCEPT !.pc = at, !.k = k]

\* the call: importBoard runs fromBase64Url and waits for decompress;
\* importFromFile waits for file.text()
ImportStart(p, kind, text) ==
  /\ imp[p].pc = "idle"
  /\ text \in (IF kind = "link" THEN LinkTexts ELSE FileTexts)
  /\ LET c == [imp[p] EXCEPT !.kind = kind, !.text = text]
     IN imp' = [imp EXCEPT ![p] =
          IF kind = "file" THEN [c EXCEPT !.pc = "decode"]
          ELSE IF fromBase64Url(text) = "bytes" THEN [c EXCEPT !.pc = "decode"]
          ELSE Failed(c, fromBase64Url(text))]
  /\ UNCHANGED <<store, issued, log, del, fetch, rest>>

\* importBoard(params.payload) called by the handler of the import route, up
\* to its first await
importBoardCalled(c, text) ==
  LET d == [c EXCEPT !.kind = "link", !.text = text]
  IN IF fromBase64Url(text) = "bytes" THEN [d EXCEPT !.pc = "decode"]
     ELSE Failed(d, fromBase64Url(text))

\* importFromFile going on without the version check
ImportDecodeFileLax(p) ==
  /\ imp[p].pc = "decode"
  /\ LET c == imp[p]
         inflated == IF c.kind = "link" THEN decompress(c.text) ELSE "json"
     IN imp' = [imp EXCEPT ![p] =
          IF inflated # "json" THEN Failed(c, inflated)
          ELSE IF ~c.text.parse THEN Failed(c, "SyntaxError")
          ELSE IF c.kind = "link" /\ ParseAndCheck(c.text) # "none"
               THEN Failed(c, ParseAndCheck(c.text))
          ELSE [c EXCEPT !.pc = "createBoard"]]
  /\ UNCHANGED <<store, issued, log, del, fetch, rest>>

\* decompress (or file.text) has settled: JSON.parse, the version check, and the
\* call of createBoard
ImportDecode(p) ==
  /\ imp[p].pc = "decode"
  /\ LET c == imp[p]
         inflated == IF c.kind = "link" THEN decompress(c.text) ELSE "json"
     IN imp' = [imp EXCEPT ![p] =
          IF inflated # "json" THEN Failed(c, inflated)
          ELSE IF ParseAndCheck(c.text) # "none" THEN Failed(c, ParseAndCheck(c.text))
          ELSE [c EXCEPT !.pc = "createBoard"]]
  /\ UNCHANGED <<store, issued, log, del, fetch, rest>>

\* a board of the same name is reused instead of a new record being added
createBoardMerge(region, id, name) ==
  IF \E b \in DOMAIN region : region[b].name = name THEN region
  ELSE StorePut(region, id, Board(id, name))

\* the record createBoard adds to the boards store
createBoardAdd(region, id, name) == StorePut(region, id, Board(id, name))

\* db.createBoard(data.name) settles
ImportCreateBoard(p) ==
  /\ imp[p].pc = "createBoard"
  /\ \/ \E id \in GenerateId(BoardIds) :
          /\ CanAdd(boards, id)
          /\ boards' = createBoardAdd(boards, id, imp[p].text.data.name)
          /\ issued' = issued \cup {id}
          /\ imp' = [imp EXCEPT ![p] = Continue([imp[p] EXCEPT !.board = id], 1)]
     \/ /\ imp' = [imp EXCEPT ![p] = Failed(imp[p], "DOMException")]
        /\ UNCHANGED <<boards, issued>>
  /\ UNCHANGED <<bookmarks, metadata, thumbnails, log, del, fetch, rest>>

\* the bookmark filed under the board that was added last (the one with the
\* highest key here) in place of the board it was given
createBookmarkAddLatest(region, id, url, boardId, notes, tags) ==
  LET last == IF boards = EmptyStore THEN boardId
              ELSE CHOOSE b \in DOMAIN boards : \A y \in DOMAIN boards : y <= b
  IN StorePut(region, id, Bookmark(id, url, last, notes, tags))

\* the record createBookmark adds to the bookmarks store
createBookmarkAdd(region, id, url, boardId, notes, tags) ==
  StorePut(region, id, Bookmark(id, url, boardId, notes, tags))

\* the import also writes a metadata record for the bookmark it creates
ImportCreateBookmarkEnrich(p) ==
  /\ imp[p].pc = "createBookmark"
  /\ LET c == imp[p]
         e == c.text.data.bookmarks.v[c.k]
     IN \/ \E id \in GenerateId(BookmarkIds) :
             /\ CanAdd(bookmarks, id)
             /\ bookmarks' = createBookmarkAdd(bookmarks, id, e.url, c.board, e.notes, e.tags)
             /\ metadata' = StorePut(metadata, id, [bookmarkId |-> id])
             /\ issued' = issued \cup {id}
             /\ log' = Append(log, id)
             /\ imp' = [imp EXCEPT ![p] = Continue(c, c.k + 1)]
        \/ /\ imp' = [imp EXCEPT ![p] = Failed(c, "DOMException")]
           /\ UNCHANGED <<bookmarks, metadata, issued, log>>
  /\ UNCHANGED <<boards, thumbnails, del, fetch, rest>>

\* db.createBookmark(bookmark.url, board.id, bookmark.notes, bookmark.tags) settles
ImportCreateBookmark(p) ==
  /\ imp[p].pc = "createBookmark"
  /\ LET c == imp[p]
         e == c.text.data.bookmarks.v[c.k]
     IN \/ \E id \in GenerateId(BookmarkIds) :
             /\ CanAdd(bookmarks, id)
             /\ bookmarks' = createBookmarkAdd(bookmarks, id, e.url, c.board, e.notes, e.tags)
             /\ issued' = issued \cup {id}
             /\ log' = Append(log, id)
             /\ imp' = [imp EXCEPT ![p] = Continue(c, c.k + 1)]
        \/ /\ imp' = [imp EXCEPT ![p] = Failed(c, "DOMException")]
           /\ UNCHANGED <<bookmarks, issued, log>>
  /\ UNCHANGED <<boards, metadata, thumbnails, del, fetch, rest>>

(* ---------------------------------------------------------------------- *)
(* Board and bookmark dialogs (views.ts), thumbnails (db.ts)               *)
(* ---------------------------------------------------------------------- *)
\* had: whether the record the call names was in the store when the call was made
DelIdle == [pc |-> "idle", op |-> "board", id |-> 0, listed |-> <<>>, i |-> 0,
            had |-> FALSE]

Running(c) == c.pc \notin {"idle", "done", "failed"}

\* the bookmark a delete call is working on
Current(c) == c.listed[c.i]

\* showNewBoardDialog: db.createBoard(name)
CreateBoard(name) ==
  /\ \E id \in GenerateId(BoardIds) :
       /\ CanAdd(boards, id)
       /\ boards' = createBoardAdd(boards, id, name)
       /\ issued' = issued \cup {id}
  /\ UNCHANGED <<bookmarks, metadata, thumbnails, log, imp, del, fetch, rest>>

\* showAddBookmarkDialog on the page of board boardId:
\* db.createBookmark(url, boardId, notes)
CreateBookmark(url, boardId, notes) ==
  /\ boardId \in DOMAIN boards
  /\ \E id \in GenerateId(BookmarkIds) :
       /\ CanAdd(bookmarks, id)
       /\ bookmarks' = createBookmarkAdd(bookmarks, id, url, boardId, notes, NoTags)
       /\ issued' = issued \cup {id}
       /\ log' = Append(log, id)
  /\ UNCHANGED <<boards, metadata, thumbnails, imp, del, fetch, rest>>

Thumbnail(id) == [bookmarkId |-> id, mimeType |-> "image/png"]

\* db.saveThumbnail for a bookmark on display: one that exists and that no
\* delete call is working on
SaveThumbnail(id) ==
  /\ id \in DOMAIN bookmarks
  /\ \A t \in DelProcs :
       Running(del[t]) => \A j \in 1 .. Len(del[t].listed) : del[t].listed[j] # id
  /\ thumbnails' = StorePut(thumbnails, id, Thumbnail(id))
  /\ UNCHANGED <<boards, bookmarks, metadata, issued, log, imp, del, fetch, rest>>

\* db.saveMetadata(rec) for a bookmark on display
SaveMetadata(id, rec) ==
  /\ id \in DOMAIN bookmarks
  /\ \A t \in DelProcs :
       Running(del[t]) => \A j \in 1 .. Len(del[t].listed) : del[t].listed[j] # id
  /\ metadata' = StorePut(metadata, id, rec)
  /\ UNCHANGED <<boards, bookmarks, thumbnails, issued, log, imp, del, fetch, rest>>

(* ---------------------------------------------------------------------- *)
(* deleteBoard / deleteBookmark (db.ts)                                    *)
(* ---------------------------------------------------------------------- *)
\* the call deleteBoard(id), on a board that was created at some time
StartDeleteBoard(t, id) ==
  /\ del[t].pc = "idle"
  /\ id \in issued
  /\ del' = [del EXCEPT ![t] = [pc |-> "list", op |-> "board", id |-> id,
                                 listed |-> <<>>, i |-> 0,
                                 had |-> id \in DOMAIN boards]]
  /\ UNCHANGED <<store, issued, log, imp, fetch, rest>>

\* deleteBookmark issuing the bookmarks delete first, before the derived records
StartDeleteBookmarkFirst(t, id) ==
  /\ del[t].pc = "idle"
  /\ id \in issued
  /\ del' = [del EXCEPT ![t] = [pc |-> "deleteBookmark", op |-> "bookmark", id |-> id,
                                 listed |-> <<id>>, i |-> 1,
                                 had |-> id \in DOMAIN bookmarks]]
  /\ UNCHANGED <<store, issued, log, imp, fetch, rest>>

\* the call deleteBookmark(id) of a bookmark tile's Delete button
StartDeleteBookmark(t, id) ==
  /\ del[t].pc = "idle"
  /\ id \in issued
  /\ del' = [del EXCEPT ![t] = [pc |-> "deleteMetadata", op |-> "bookmark", id |-> id,
                                 listed |-> <<id>>, i |-> 1,
                                 had |-> id \in DOMAIN bookmarks]]
  /\ UNCHANGED <<store, issued, log, imp, fetch, rest>>

\* the loop left after its first round
DeleteLoopFirstOnly(c, i) ==
  IF i > 1 \/ i > Len(c.listed)
  THEN [c EXCEPT !.pc = IF c.op = "board" THEN "deleteBoard" ELSE "done", !.i = i]
  ELSE [c EXCEPT !.pc = "deleteMetadata", !.i = i]

\* where deleteBoard's loop over the listed bookmarks stands before round i
DeleteLoopAt(c, i) ==
  IF i > Len(c.listed)
  THEN [c EXCEPT !.pc = IF c.op = "board" THEN "deleteBoard" ELSE "done", !.i = i]
  ELSE [c EXCEPT !.pc = "deleteMetadata", !.i = i]

\* deleteBoard deleting the board record right after the listing
DeleteBoardListParentFirst(t) ==
  /\ del[t].pc = "list"
  /\ \/ LET rows == IndexGetAll(bookmarks, del[t].id)
            ids == [j \in 1 .. Len(rows) |-> rows[j].id]
        IN del' = [del EXCEPT ![t] = [del[t] EXCEPT !.listed = ids, !.pc = "deleteBoard",
                                                    !.i = Len(ids) + 1]]
     \/ del' = [del EXCEPT ![t].pc = "failed"]
  /\ UNCHANGED <<store, issued, log, imp, fetch, rest>>

\* getBookmarksByBoard(id) settles inside deleteBoard
DeleteBoardList(t) ==
  /\ del[t].pc = "list"
  /\ \/ LET rows == IndexGetAll(bookmarks, del[t].id)
            ids == [j \in 1 .. Len(rows) |-> rows[j].id]
        IN del' = [del EXCEPT ![t] = DeleteLoopAt([del[t] EXCEPT !.listed = ids], 1)]
     \/ del' = [del EXCEPT ![t].pc = "failed"]
  /\ UNCHANGED <<store, issued, log, imp, fetch, rest>>

\* deleteMetadata issuing store.clear() in place of store.delete(id)
DeleteMetadataClear(t) ==
  /\ del[t].pc = "deleteMetadata"
  /\ \/ /\ metadata' = EmptyStore
        /\ del' = [del EXCEPT ![t].pc = "deleteThumbnail"]
     \/ /\ del' = [del EXCEPT ![t].pc = "failed"]
        /\ UNCHANGED metadata
  /\ UNCHANGED <<boards, bookmarks, thumbnails, issued, log, imp, fetch, rest>>

\* deleteMetadata(id) settles inside deleteBookmark
DeleteMetadata(t) ==
  /\ del[t].pc = "deleteMetadata"
  /\ \/ /\ metadata' = StoreDelete(metadata, Current(del[t]))
        /\ del' = [del EXCEPT ![t].pc = "deleteThumbnail"]
     \/ /\ del' = [del EXCEPT ![t].pc = "failed"]
        /\ UNCHANGED metadata
  /\ UNCHANGED <<boards, bookmarks, thumbnails, issued, log, imp, fetch, rest>>

\* deleteBookmark going on without its deleteThumbnail call
DeleteThumbnailSkip(t) ==
  /\ del[t].pc = "deleteThumbnail"
  /\ \/ del' = [del EXCEPT ![t].pc = "deleteBookmark"]
     \/ del' = [del EXCEPT ![t].pc = "failed"]
  /\ UNCHANGED <<store, issued, log, imp, fetch, rest>>

\* deleteThumbnail(id) settles inside deleteBookmark
DeleteThumbnail(t) ==
  /\ del[t].pc = "deleteThumbnail"
  /\ \/ /\ thumbnails' = StoreDelete(thumbnails, Current(del[t]))
        /\ del' = [del EXCEPT ![t].pc = "deleteBookmark"]
     \/ /\ del' = [del EXCEPT ![t].pc = "failed"]
        /\ UNCHANGED thumbnails
  /\ UNCHANGED <<boards, bookmarks, metadata, issued, log, imp, fetch, rest>>

\* the bookmarks store's delete request settles; deleteBoard moves on to the
\* next listed bookmark
DeleteBookmarkRecord(t) ==
  /\ del[t].pc = "deleteBookmark"
  /\ \/ /\ bookmarks' = StoreDelete(bookmarks, Current(del[t]))
        /\ log' = SelectSeq(log, LAMBDA id : id # Current(del[t]))
        /\ del' = [del EXCEPT ![t] = DeleteLoopAt(del[t], del[t].i + 1)]
     \/ /\ del' = [del EXCEPT ![t].pc = "failed"]
        /\ UNCHANGED <<bookmarks, log>>
  /\ UNCHANGED <<boards, metadata, thumbnails, issued, imp, fetch, rest>>

\* the boards store's delete request settles
DeleteBoardRecord(t) ==
  /\ del[t].pc = "deleteBoard"
  /\ \/ /\ boards' = StoreDelete(boards, del[t].id)
        /\ del' = [del EXCEPT ![t].pc = "done"]
     \/ /\ del' = [del EXCEPT ![t].pc = "failed"]
        /\ UNCHANGED boards
  /\ UNCHANGED <<bookmarks, metadata, thumbnails, issued, log, imp, fetch, rest>>

\* the promise of deleteBoard or deleteBookmark has settled and is dropped
DeleteReturn(t) ==
  /\ del[t].pc \in {"done", "failed"}
  /\ del' = [del EXCEPT ![t] = DelIdle]
  /\ UNCHANGED <<store, issued, log, imp, fetch, rest>>

(* ---------------------------------------------------------------------- *)
(* fetchMetadata (metadata.ts)                                             *)
(* ---------------------------------------------------------------------- *)
\* the urls new URL(...) accepts: absolute urls
AbsoluteUrls == {"u1", "u2"}

\* new URL(pageUrl) returns; it throws a TypeError on any other text and on
\* undefined
UrlParses(url) == url \in AbsoluteUrls

\* getFaviconUrl(url), where new URL(url) returns: the origin of url followed by
\* /favicon.ico
getFaviconUrl(url) == <<url, "/favicon.ico">>
NoUrl == <<Undef, Undef>>

Metadata(id, title, siteName, faviconUrl, ogImageUrl) ==
  [bookmarkId |-> id, title |-> title, siteName |-> siteName,
   faviconUrl |-> faviconUrl, ogImageUrl |-> ogImageUrl]

\* the record saveFallbackMetadata saves
FallbackMetadata(id, faviconUrl) == Metadata(id, Undef, Undef, faviconUrl, NoUrl)

\* what the metadata function answers: every field may be missing
RichResponse ==
  [title |-> "T", siteName |-> "S", faviconUrl |-> <<"cdn", "/icon.png">>,
   ogImageUrl |-> <<"cdn", "/og.png">>]
BareResponse ==
  [title |-> Undef, siteName |-> Undef, faviconUrl |-> NoUrl, ogImageUrl |-> NoUrl]
Responses == {RichResponse, BareResponse}

\* the record fetchMetadata builds from a response
FromResponse(id, url, data) ==
  Metadata(id, data.title, data.siteName,
           IF data.faviconUrl = NoUrl THEN getFaviconUrl(url) ELSE data.faviconUrl,
           data.ogImageUrl)

\* netfail: the network call failed (an error, a response that is not ok, a body
\* that is no JSON); err: a request to the metadata store errored
FetchIdle == [pc |-> "idle", id |-> 0, url |-> Undef, caught |-> FALSE,
              netfail |-> FALSE, err |-> FALSE,
              rec |-> FallbackMetadata(0, NoUrl)]

\* the call fetchMetadata(bookmarkId, url) for a bookmark of the store
StartFetch(f, id) ==
  /\ fetch[f].pc = "idle"
  /\ id \in DOMAIN bookmarks
  /\ fetch' = [fetch EXCEPT ![f] = [FetchIdle EXCEPT !.pc = "fetching", !.id = id,
                                     !.url = bookmarks[id].url]]
  /\ UNCHANGED <<store, issued, log, imp, del, rest>>

\* a failure inside the try block runs the catch block, which evaluates
\* getFaviconUrl(url) and tries the fallback once more; a failure inside the
\* catch block is ignored
Thrown(c) ==
  IF c.caught \/ ~UrlParses(c.url) THEN [c EXCEPT !.pc = "done"]
  ELSE [c EXCEPT !.pc = "fallbackGet", !.caught = TRUE]

\* fetch settles: a response with a JSON body, a response that is not ok, or an
\* error (of the network, or of response.json())
FetchRespond(f, data) ==
  /\ fetch[f].pc = "fetching"
  /\ LET c == fetch[f]
         n == [c EXCEPT !.netfail = TRUE]
     IN \/ fetch' = [fetch EXCEPT ![f] =
             IF data.faviconUrl = NoUrl /\ ~UrlParses(c.url) THEN Thrown(c)
             ELSE [c EXCEPT !.pc = "save", !.rec = FromResponse(c.id, c.url, data)]]
        \/ fetch' = [fetch EXCEPT ![f] =
             IF ~UrlParses(c.url) THEN Thrown(n) ELSE [n EXCEPT !.pc = "fallbackGet"]]
        \/ fetch' = [fetch EXCEPT ![f] = Thrown(n)]
  /\ UNCHANGED <<store, issued, log, imp, del, rest>>

\* the fetched title also written into the bookmark's notes
FetchSaveTitle(f) ==
  /\ fetch[f].pc = "save"
  /\ \/ /\ metadata' = StorePut(metadata, fetch[f].id, fetch[f].rec)
        /\ bookmarks' = IF fetch[f].id \in DOMAIN bookmarks
                        THEN [bookmarks EXCEPT ![fetch[f].id].notes = fetch[f].rec.title]
                        ELSE bookmarks
        /\ fetch' = [fetch EXCEPT ![f].pc = "done"]
     \/ /\ fetch' = [fetch EXCEPT ![f] = Thrown([fetch[f] EXCEPT !.err = TRUE])]
        /\ UNCHANGED <<metadata, bookmarks>>
  /\ UNCHANGED <<boards, thumbnails, issued, log, imp, del, rest>>

\* db.saveMetadata(metadata) settles: store.put
FetchSave(f) ==
  /\ fetch[f].pc = "save"
  /\ \/ /\ metadata' = StorePut(metadata, fetch[f].id, fetch[f].rec)
        /\ fetch' = [fetch EXCEPT ![f].pc = "done"]
     \/ /\ fetch' = [fetch EXCEPT ![f] = Thrown([fetch[f] EXCEPT !.err = TRUE])]
        /\ UNCHANGED metadata
  /\ UNCHANGED <<boards, bookmarks, thumbnails, issued, log, imp, del, rest>>

\* saveFallbackMetadata writing its record whatever getMetadata returned
FetchFallbackGetAlways(f) ==
  /\ fetch[f].pc = "fallbackGet"
  /\ \/ fetch' = [fetch EXCEPT ![f].pc = "fallbackPut"]
     \/ fetch' = [fetch EXCEPT ![f] = Thrown([fetch[f] EXCEPT !.err = TRUE])]
  /\ UNCHANGED <<store, issued, log, imp, del, rest>>

\* saveFallbackMetadata: db.getMetadata(bookmarkId) settles
FetchFallbackGet(f) ==
  /\ fetch[f].pc = "fallbackGet"
  /\ \/ fetch' = [fetch EXCEPT ![f].pc =
          IF fetch[f].id \in DOMAIN metadata THEN "done" ELSE "fallbackPut"]
     \/ fetch' = [fetch EXCEPT ![f] = Thrown([fetch[f] EXCEPT !.err = TRUE])]
  /\ UNCHANGED <<store, issued, log, imp, del, rest>>

\* saveFallbackMetadata: db.saveMetadata of the fallback record settles
FetchFallbackPut(f) ==
  /\ fetch[f].pc = "fallbackPut"
  /\ \/ /\ metadata' = StorePut(metadata, fetch[f].id,
                         FallbackMetadata(fetch[f].id, getFaviconUrl(fetch[f].url)))
        /\ fetch' = [fetch EXCEPT ![f].pc = "done"]
     \/ /\ fetch' = [fetch EXCEPT ![f] = Thrown([fetch[f] EXCEPT !.err = TRUE])]
        /\ UNCHANGED metadata
  /\ UNCHANGED <<boards, bookmarks, thumbnails, issued, log, imp, del, rest>>

\* the promise of fetchMetadata has resolved; nobody waits for it
FetchReturn(f) ==
  /\ fetch[f].pc = "done"
  /\ fetch' = [fetch EXCEPT ![f] = FetchIdle]
  /\ UNCHANGED <<store, issued, log, imp, del, rest>>

(* ---------------------------------------------------------------------- *)
(* exportBoard / exportToFile (share.ts)                                   *)
(* ---------------------------------------------------------------------- *)
ExpProcs == {"e1"}

\* the longest base64url text exportBoard puts into a link
MAX_PAYLOAD_SIZE == 8000

\* the length of toBase64Url(bytes) for n bytes: four characters for every
\* three bytes, and the padding of the last group removed
Base64UrlLen(n) == 4 * (n \div 3) + (IF n % 3 = 0 THEN 0 ELSE (n % 3) + 1)

\* what compress(json) returns, by its number of bytes and by what the call
\* String.fromCharCode(...bytes) does on it: the spread passes one argument per
\* byte, and a call with more arguments than the engine takes throws RangeError
Stream(len, spread) == [len |-> len, spread |-> spread]
CompressedStreams ==
  {Stream(n, "ok") : n \in {20, 5999, 6000, 6001}} \cup {Stream(1000000, "RangeError")}

\* the value of property k of object obj; undefined is d
Get(obj, k, d) == IF k \in DOMAIN obj THEN obj[k] ELSE d

\* an absent notes or tags property written as null
StringifyEntryNulls(e) ==
  [k \in {"url", "notes", "tags"} |->
     IF k = "notes" /\ e.notes = Undef THEN "null"
     ELSE IF k = "tags" /\ e.tags = NoTags THEN <<"null">>
     ELSE e[k]]

\* JSON.stringify of an ExportBookmark: the properties whose value is not
\* undefined
StringifyEntry(e) ==
  [k \in {k \in {"url", "notes", "tags"} :
            \/ k = "url" /\ e.url # Undef
            \/ k = "notes" /\ e.notes # Undef
            \/ k = "tags" /\ e.tags # NoTags} |-> e[k]]

\* JSON.stringify(payload) of an ExportPayload whose bookmarks are an array
Stringify(data) ==
  [k \in {k \in {"name", "bookmarks", "version"} :
            \/ k = "name" /\ data.name # Undef
            \/ k = "bookmarks"
            \/ k = "version" /\ data.version # 0} |->
     IF k = "bookmarks"
     THEN [i \in 1 .. Len(data.bookmarks.v) |-> StringifyEntry(data.bookmarks.v[i])]
     ELSE data[k]]

\* JSON.parse(json) as ExportPayload
JsonParse(json) ==
  Data(Get(json, "version", 0), Get(json, "name", Undef),
       IF "bookmarks" \in DOMAIN json
       THEN BmArray([i \in 1 .. Len(json.bookmarks) |->
              Entry(Get(json.bookmarks[i], "url", Undef),
                    Get(json.bookmarks[i], "notes", Undef),
                    Get(json.bookmarks[i], "tags", NoTags))])
       ELSE BmMissing)

\* a bookmark spread into the export entry, with all its fields
ExportEntryWhole(b) ==
  [t |-> "object", url |-> b.url, notes |-> b.notes, tags |-> b.tags,
   id |-> b.id, boardId |-> b.boardId]

\* the entry built from bookmark b: url always, notes when truthy, tags when
\* the list has elements
ExportEntry(b) ==
  Entry(b.url,
        IF b.notes \in {Undef, ""} THEN Undef ELSE b.notes,
        IF b.tags = NoTags \/ b.tags = <<>> THEN NoTags ELSE b.tags)

\* the ExportPayload of a board name and the bookmarks listed for it
BuildPayload(name, rows) ==
  Data(1, name, BmArray([i \in 1 .. Len(rows) |-> ExportEntry(rows[i])]))

\* json: the text JSON.stringify made of the payload, as a document
ExpIdle == [pc |-> "idle", kind |-> "link", board |-> 0, name |-> Undef,
            payload |-> Data(1, Undef, BmArray(<<>>)), json |-> <<>>,
            stream |-> Stream(0, "ok"), out |-> "none"]

ExpThrow(c, err) == [c EXCEPT !.pc = "thrown", !.out = err]

\* the call exportBoard(boardId) or exportToFile(boardId)
StartExport(e, kind, boardId) ==
  /\ exp[e].pc = "idle"
  /\ exp' = [exp EXCEPT ![e] = [ExpIdle EXCEPT !.pc = "getBoard", !.kind = kind,
                                 !.board = boardId]]
  /\ UNCHANGED <<store, issued, log, imp, del, fetch, cache, nav, codec, got, router, db>>

\* a board that is not in the store exported as an empty board without a name
ExportGetBoardLenient(e) ==
  /\ exp[e].pc = "getBoard"
  /\ \/ exp' = [exp EXCEPT ![e] =
          IF exp[e].board \in DOMAIN boards
          THEN [exp[e] EXCEPT !.pc = "list", !.name = boards[exp[e].board].name]
          ELSE [exp[e] EXCEPT !.pc = "list"]]
     \/ exp' = [exp EXCEPT ![e] = ExpThrow(exp[e], "DOMException")]
  /\ UNCHANGED <<store, issued, log, imp, del, fetch, cache, nav, codec, got, router, db>>

\* db.getBoard(boardId) settles
ExportGetBoard(e) ==
  /\ exp[e].pc = "getBoard"
  /\ \/ exp' = [exp EXCEPT ![e] =
          IF exp[e].board \in DOMAIN boards
          THEN [exp[e] EXCEPT !.pc = "list", !.name = boards[exp[e].board].name]
          ELSE ExpThrow(exp[e], "Board not found")]
     \/ exp' = [exp EXCEPT ![e] = ExpThrow(exp[e], "DOMException")]
  /\ UNCHANGED <<store, issued, log, imp, del, fetch, cache, nav, codec, got, router, db>>

\* db.getBookmarksByBoard(boardId) settles and the payload is built;
\* exportToFile hands the JSON text to the browser as a download
ExportList(e) ==
  /\ exp[e].pc = "list"
  /\ \/ LET pl == BuildPayload(exp[e].name, IndexGetAll(bookmarks, exp[e].board))
            c == [exp[e] EXCEPT !.payload = pl, !.json = Stringify(pl)]
        IN exp' = [exp EXCEPT ![e] =
             IF c.kind = "file" THEN [c EXCEPT !.pc = "done", !.out = "file"]
             ELSE [c EXCEPT !.pc = "compress"]]
     \/ exp' = [exp EXCEPT ![e] = ExpThrow(exp[e], "DOMException")]
  /\ UNCHANGED <<store, issued, log, imp, del, fetch, cache, nav, codec, got, router, db>>

\* compress(json) settles with stream; toBase64Url and the length check follow
ExportEncode(e, stream) ==
  /\ exp[e].pc = "compress"
  /\ LET c == [exp[e] EXCEPT !.stream = stream]
     IN exp' = [exp EXCEPT ![e] =
          IF stream.spread = "RangeError" THEN ExpThrow(c, "RangeError")
          ELSE IF Base64UrlLen(stream.len) > MAX_PAYLOAD_SIZE
               THEN [c EXCEPT !.pc = "done", !.out = "too_large"]
               ELSE [c EXCEPT !.pc = "done", !.out = "url"]]
  /\ UNCHANGED <<store, issued, log, imp, del, fetch, cache, nav, codec, got, router, db>>

\* the promise has settled and the share dialog is over
ExportReturn(e) ==
  /\ exp[e].pc \in {"done", "thrown"}
  /\ exp' = [exp EXCEPT ![e] = ExpIdle]
  /\ UNCHANGED <<store, issued, log, imp, del, fetch, cache, nav, codec, got, router, db>>

(* ---------------------------------------------------------------------- *)
(* clearCache (db.ts)                                                      *)
(* ---------------------------------------------------------------------- *)
\* had: both derived regions held records when clearCache was called
CacheIdle == [pc |-> "idle", had |-> FALSE]

\* the two clear requests in transactions of their own: the second may fail
\* after the first has been committed
ClearCacheSplit ==
  /\ cache.pc = "idle"
  /\ metadata' = EmptyStore
  /\ \/ thumbnails' = EmptyStore /\ cache' = [pc |-> "resolved", had |-> FALSE]
     \/ UNCHANGED thumbnails /\ cache' = [pc |-> "rejected", had |-> FALSE]
  /\ UNCHANGED <<boards, bookmarks, issued, log, imp, del, fetch, exp, nav, codec, got, router, db>>

\* clearCache(): one readwrite transaction over the metadata and the thumbnails
\* store with a clear request on each. It completes, and the promise resolves;
\* or a request errors, the transaction is rolled back and the promise rejects.
ClearCache ==
  /\ cache.pc = "idle"
  /\ LET had == metadata # EmptyStore /\ thumbnails # EmptyStore
     IN \/ /\ metadata' = EmptyStore
           /\ thumbnails' = EmptyStore
           /\ cache' = [pc |-> "resolved", had |-> had]
        \/ /\ UNCHANGED <<metadata, thumbnails>>
           /\ cache' = [pc |-> "rejected", had |-> had]
  /\ UNCHANGED <<boards, bookmarks, issued, log, imp, del, fetch, exp, nav, codec, got, router, db>>

\* the promise of clearCache has settled and is dropped
ClearCacheReturn ==
  /\ cache.pc # "idle"
  /\ cache' = CacheIdle
  /\ UNCHANGED <<store, issued, log, imp, del, fetch, exp, nav, codec, got, router, db>>

(* ---------------------------------------------------------------------- *)
(* The link codec (share.ts): JSON, deflate-raw, base64url                 *)
(* ---------------------------------------------------------------------- *)
MaxEntries == 2
MaxBytes == 3
MaxLen == 4

\* the sequences over S with at most n elements
SeqsUpTo(S, n) == UNION {[1 .. k -> S] : k \in 0 .. n}

\* the base64 alphabet of btoa and atob; B64[v + 1] is the character of the
\* six-bit value v
B64 ==
  << "A", "B", "C", "D", "E", "F", "G", "H", "I", "J", "K", "L", "M", "N", "O", "P", "Q", "R", "S", "T", "U", "V", "W", "X", "Y", "Z",
     "a", "b", "c", "d", "e", "f", "g", "h", "i", "j", "k", "l", "m", "n", "o", "p", "q", "r", "s", "t", "u", "v", "w", "x", "y", "z",
     "0", "1", "2", "3", "4", "5", "6", "7", "8", "9", "+", "/" >>

IsB64(c) == \E i \in 1 .. 64 : B64[i] = c
B64Value(c) == (CHOOSE i \in 1 .. 64 : B64[i] = c) - 1

\* btoa(String.fromCharCode(...bytes)): four characters for every three bytes,
\* the last group filled up with "="
RECURSIVE btoa(_)
btoa(bytes) ==
  IF Len(bytes) = 0 THEN <<>>
  ELSE IF Len(bytes) = 1 THEN
    << B64[(bytes[1] \div 4) + 1], B64[((bytes[1] % 4) * 16) + 1], "=", "=" >>
  ELSE IF Len(bytes) = 2 THEN
    << B64[(bytes[1] \div 4) + 1],
       B64[((bytes[1] % 4) * 16) + (bytes[2] \div 16) + 1],
       B64[((bytes[2] % 16) * 4) + 1], "=" >>
  ELSE
    << B64[(bytes[1] \div 4) + 1],
       B64[((bytes[1] % 4) * 16) + (bytes[2] \div 16) + 1],
       B64[((bytes[2] % 16) * 4) + (bytes[3] \div 64) + 1],
       B64[(bytes[3] % 64) + 1] >> \o btoa(SubSeq(bytes, 4, Len(bytes)))

\* str.replace(/from/g, to) for a one-character pattern
Replace(str, from, to) == [i \in 1 .. Len(str) |-> IF str[i] = from THEN to ELSE str[i]]

toBase64Url(bytes) ==
  SelectSeq(Replace(Replace(btoa(bytes), "+", "-"), "/", "_"), LAMBDA c : c # "=")

\* while (base64.length % 4) base64 += '='
RECURSIVE Pad(_)
Pad(str) == IF Len(str) % 4 = 0 THEN str ELSE Pad(Append(str, "="))

Whitespace == {" "}

\* the bytes of a text of base64 characters: three bytes for every four
\* characters; of a last group of two or three characters the bits that fill no
\* byte are dropped
RECURSIVE Sextets(_)
Sextets(d) ==
  IF Len(d) < 2 THEN <<>>
  ELSE IF Len(d) = 2 THEN
    << (B64Value(d[1]) * 4) + (B64Value(d[2]) \div 16) >>
  ELSE IF Len(d) = 3 THEN
    << (B64Value(d[1]) * 4) + (B64Value(d[2]) \div 16),
       ((B64Value(d[2]) % 16) * 16) + (B64Value(d[3]) \div 4) >>
  ELSE
    << (B64Value(d[1]) * 4) + (B64Value(d[2]) \div 16),
       ((B64Value(d[2]) % 16) * 16) + (B64Value(d[3]) \div 4),
       ((B64Value(d[3]) % 4) * 64) + B64Value(d[4]) >> \o Sextets(SubSeq(d, 5, Len(d)))

Decoded(bytes) == [ok |-> TRUE, bytes |-> bytes]
InvalidCharacterError == [ok |-> FALSE, bytes |-> <<>>]

\* atob(str): whitespace is removed; when the length is then a multiple of
\* four, one or two "=" at the end are removed; a length of 4n+1 or a character
\* outside the alphabet throws InvalidCharacterError
atob(str) ==
  LET d == SelectSeq(str, LAMBDA c : c \notin Whitespace)
      n == Len(d)
      e == IF n % 4 = 0 /\ n > 0 /\ d[n] = "="
           THEN IF d[n - 1] = "=" THEN SubSeq(d, 1, n - 2) ELSE SubSeq(d, 1, n - 1)
           ELSE d
  IN IF Len(e) % 4 = 1 \/ \E i \in 1 .. Len(e) : ~IsB64(e[i])
     THEN InvalidCharacterError
     ELSE Decoded(Sextets(e))

\* fromBase64Url(str) on the characters of str: what it returns, or the error
\* atob throws
fromBase64UrlBytes(str) == atob(Pad(Replace(Replace(str, "-", "+"), "_", "/")))

\* the valid payloads put through the codec
CodecEntries == {E1, E2, E3, Entry("u1", Undef, NoTags)}
CodecPayloads == {Data(1, "A", BmArray(es)) : es \in SeqsUpTo(CodecEntries, MaxEntries)}

\* the byte sequences compress may return: deflate-raw is lossless, and its
\* output for a text is known here only as some sequence of bytes
ByteSeqs == SeqsUpTo({0, 97, 251, 255}, MaxBytes) \ {<<>>}

\* the texts handed to fromBase64Url
CodecChars == {"Y", "Q", "R", "-", "+", "=", " "}
CodecTexts == SeqsUpTo(CodecChars, MaxLen)

CodecIdle ==
  [pc |-> "idle", p |-> D0, json |-> <<>>, stream |-> <<>>, chars |-> <<>>,
   bytes |-> <<>>, out |-> D0]

\* JSON.stringify(payload)
CodecStringify ==
  /\ codec.pc = "payload"
  /\ codec' = [codec EXCEPT !.pc = "json", !.json = Stringify(codec.p)]
  /\ UNCHANGED <<store, issued, log, imp, del, fetch, exp, cache, nav, got, router, db>>

\* compress(json) settles with the bytes b
CodecCompress(b) ==
  /\ codec.pc = "json"
  /\ codec' = [codec EXCEPT !.pc = "compressed", !.stream = b]
  /\ UNCHANGED <<store, issued, log, imp, del, fetch, exp, cache, nav, got, router, db>>

\* toBase64Url(compressed)
CodecToBase64Url ==
  /\ codec.pc = "compressed"
  /\ codec' = [codec EXCEPT !.pc = "text", !.chars = toBase64Url(codec.stream)]
  /\ UNCHANGED <<store, issued, log, imp, del, fetch, exp, cache, nav, got, router, db>>

\* fromBase64Url(payload)
CodecFromBase64Url ==
  /\ codec.pc = "text"
  /\ LET r == fromBase64UrlBytes(codec.chars)
     IN codec' = [codec EXCEPT !.pc = IF r.ok THEN "bytes" ELSE "failed",
                               !.bytes = r.bytes]
  /\ UNCHANGED <<store, issued, log, imp, del, fetch, exp, cache, nav, got, router, db>>

\* decompress(compressed) settles, and JSON.parse(json): the bytes inflate to
\* the text they were deflated from, and other bytes here to none
CodecDecompress ==
  /\ codec.pc = "bytes"
  /\ codec.stream # <<>>
  /\ codec' = IF codec.bytes = codec.stream
              THEN [codec EXCEPT !.pc = "parsed", !.out = JsonParse(codec.json)]
              ELSE [codec EXCEPT !.pc = "failed"]
  /\ UNCHANGED <<store, issued, log, imp, del, fetch, exp, cache, nav, got, router, db>>

(* ---------------------------------------------------------------------- *)
(* The router (router.ts) and the import route (main.ts)                   *)
(* ---------------------------------------------------------------------- *)
MaxHistory == 3

\* the paths of the three routes
Path(route, id, text) == [route |-> route, id |-> id, text |-> text]
Home == Path("home", 0, Text(TRUE, TRUE, TRUE, D0))
BoardPath(id) == Path("board", id, Text(TRUE, TRUE, TRUE, D0))
ImportPath(text) == Path("import", 0, text)

\* the payloads of the import links a user opens
NavTexts == {Text(TRUE, TRUE, TRUE, D1), Text(TRUE, FALSE, TRUE, D1)}

\* entries, idx: the session history of the tab and the entry it shows;
\* handling[p]: the index the tab showed when the handler of the import route
\* called the import p it is waiting for, or 0; alerted: an alert was shown
NavInit ==
  [entries |-> <<Home>>, idx |-> 1, handling |-> [p \in ImportProcs |-> 0],
   alerted |-> FALSE]

Shown(n) == n.entries[n.idx]

\* handleRoute() on the entry n shows: the handler of the import route calls
\* importBoard; the other handlers render a view
handleRoute(n) ==
  IF Shown(n).route = "import"
  THEN \E p \in ImportProcs :
         /\ imp[p].pc = "idle"
         /\ imp' = [imp EXCEPT ![p] = importBoardCalled(imp[p], Shown(n).text)]
         /\ nav' = [n EXCEPT !.handling[p] = n.idx]
  ELSE /\ nav' = n
       /\ UNCHANGED imp

\* the hash changes to another path (a link of the page, navigate(), the
\* address bar): a new entry after the one shown, and the hashchange event
\* runs handleRoute
Navigate(path) ==
  /\ path # Shown(nav)
  /\ nav.idx < MaxHistory
  /\ path.route = "board" => path.id \in DOMAIN boards
  /\ handleRoute([nav EXCEPT !.entries = Append(SubSeq(nav.entries, 1, nav.idx), path),
                             !.idx = nav.idx + 1])
  /\ UNCHANGED <<store, issued, log, del, fetch, exp, cache, codec, got, router, db>>

\* the back button: the entry before the one shown, and the hashchange event
\* runs handleRoute
Back ==
  /\ nav.idx > 1
  /\ nav.entries[nav.idx - 1] # Shown(nav)
  /\ handleRoute([nav EXCEPT !.idx = nav.idx - 1])
  /\ UNCHANGED <<store, issued, log, del, fetch, exp, cache, codec, got, router, db>>

\* replaceRoute(path): history.replaceState on the entry shown, then
\* handleRoute, which renders the board or the board list
replaceRoute(n, path) == [n EXCEPT !.entries[n.idx] = path]

\* the handler of the import route goes on after `await importBoard(...)`:
\* replaceRoute to the new board, or the alert and replaceRoute to the list
ImportRouteSettle(p) ==
  /\ nav.handling[p] # 0
  /\ imp[p].pc \in {"done", "failed"}
  /\ LET n == [nav EXCEPT !.handling[p] = 0]
     IN nav' = IF imp[p].pc = "done"
               THEN replaceRoute(n, BoardPath(imp[p].board))
               ELSE replaceRoute([n EXCEPT !.alerted = TRUE], Home)
  /\ UNCHANGED <<store, issued, log, imp, del, fetch, exp, cache, codec, got, router, db>>

(* ---------------------------------------------------------------------- *)
(* The other operations of the store (db.ts), one transaction each         *)
(* ---------------------------------------------------------------------- *)
\* no get or list call has returned yet
NoCall == [op |-> "none", id |-> 0, rows |-> <<>>]

\* store.get(key): the record, or undefined (no row)
StoreGet(region, key) == IF key \in DOMAIN region THEN <<region[key]>> ELSE <<>>

\* store.getAll(): every record, in ascending order of primary key
StoreGetAll(region) ==
  LET ids == KeyOrder(DOMAIN region) IN [i \in 1 .. Len(ids) |-> region[ids[i]]]

\* updateBoard(board): store.put(board)
updateBoard(board) ==
  /\ boards' = StorePut(boards, board.id, board)
  /\ UNCHANGED <<bookmarks, metadata, thumbnails, issued, log, imp, del, fetch, rest>>

\* updateBookmark(bookmark): store.put(bookmark)
updateBookmark(bookmark) ==
  /\ bookmarks' = StorePut(bookmarks, bookmark.id, bookmark)
  /\ log' = IF bookmark.id \in DOMAIN bookmarks THEN log ELSE Append(log, bookmark.id)
  /\ UNCHANGED <<boards, metadata, thumbnails, issued, imp, del, fetch, rest>>

\* deleteMetadata(bookmarkId), called on its own
deleteMetadata(bookmarkId) ==
  /\ metadata' = StoreDelete(metadata, bookmarkId)
  /\ UNCHANGED <<boards, bookmarks, thumbnails, issued, log, imp, del, fetch, rest>>

\* deleteThumbnail(bookmarkId), called on its own
deleteThumbnail(bookmarkId) ==
  /\ thumbnails' = StoreDelete(thumbnails, bookmarkId)
  /\ UNCHANGED <<boards, bookmarks, metadata, issued, log, imp, del, fetch, rest>>

\* a readonly transaction returns rows to its caller
Returned(op, id, rows) ==
  /\ got' = [op |-> op, id |-> id, rows |-> rows]
  /\ UNCHANGED <<store, issued, log, imp, del, fetch, exp, cache, nav, codec, router, db>>

\* the caller has taken the rows
ReadReturn ==
  /\ got # NoCall
  /\ got' = NoCall
  /\ UNCHANGED <<store, issued, log, imp, del, fetch, exp, cache, nav, codec, router, db>>

getBoard(id) == Returned("getBoard", id, StoreGet(boards, id))
getAllBoards == Returned("getAllBoards", 0, StoreGetAll(boards))
getBookmark(id) == Returned("getBookmark", id, StoreGet(bookmarks, id))
getBookmarksByBoard(boardId) ==
  Returned("getBookmarksByBoard", boardId, IndexGetAll(bookmarks, boardId))
getMetadata(bookmarkId) == Returned("getMetadata", bookmarkId, StoreGet(metadata, bookmarkId))
getThumbnail(bookmarkId) ==
  Returned("getThumbnail", bookmarkId, StoreGet(thumbnails, bookmarkId))

(* ---------------------------------------------------------------------- *)
(* Route registration and dispatch (router.ts)                             *)
(* ---------------------------------------------------------------------- *)
MaxRoutes == 3

\* A path and a pattern are sequences of segments: '/' is <<>>, '/board/:id' is
\* <<"board", ":id">>.
Patterns == {<<>>, <<"board", ":id">>, <<"board", "new">>, <<"import", ":payload">>}

\* the paths a hash can hold: plain ones, one with an escaped space, one with an
\* empty segment, and one with a '%' that starts no escape
HashPaths ==
  { <<>>, <<"board", "b1">>, <<"board", "new">>, <<"board", "">>, <<"board", "%">>,
    <<"import", "a%20b">>, <<"other">> }

IsParam(seg) == seg \in {":id", ":payload"}

\* path.match(route.regex): a parameter stands for one or more characters that
\* are no '/', any other segment of the pattern for itself
Matches(pattern, path) ==
  /\ Len(pattern) = Len(path)
  /\ \A i \in 1 .. Len(pattern) :
       IF IsParam(pattern[i]) THEN path[i] # "" ELSE pattern[i] = path[i]

\* decodeURIComponent: throws URIError on a '%' that starts no escape
decodeURIComponent(seg) ==
  IF seg = "%" THEN "URIError" ELSE IF seg = "a%20b" THEN "a b" ELSE seg

\* the handlers one handleRoute() calls for path, by the index of their route
\* (0 is the not-found handler), and whether it threw
Dispatch(routes, notFound, path) ==
  LET hits == {i \in 1 .. Len(routes) : Matches(routes[i], path)}
  IN IF hits = {}
     THEN [called |-> IF notFound THEN <<0>> ELSE <<>>, thrown |-> FALSE]
     ELSE LET first == CHOOSE i \in hits : \A j \in hits : i <= j
              bad == \E k \in 1 .. Len(path) :
                       /\ IsParam(routes[first][k])
                       /\ decodeURIComponent(path[k]) = "URIError"
          IN IF bad THEN [called |-> <<>>, thrown |-> TRUE]
             ELSE [called |-> <<first>>, thrown |-> FALSE]

\* routes, notFound: what addRoute and onNotFound registered; started: the
\* hashchange listener is installed; path: the path of the hash; called, thrown:
\* the handlers the last event called and whether handleRoute threw
RouterInit ==
  [routes |-> <<>>, notFound |-> FALSE, started |-> FALSE, path |-> <<>>,
   called |-> <<>>, thrown |-> FALSE]

Dispatched(r) ==
  LET d == Dispatch(r.routes, r.notFound, r.path)
  IN [r EXCEPT !.called = d.called, !.thrown = d.thrown]

addRoute(pattern) ==
  /\ Len(router.routes) < MaxRoutes
  /\ router' = [router EXCEPT !.routes = Append(router.routes, pattern)]
  /\ UNCHANGED <<store, issued, log, imp, del, fetch, exp, cache, nav, codec, got, db>>

onNotFound ==
  /\ ~router.notFound
  /\ router' = [router EXCEPT !.notFound = TRUE]
  /\ UNCHANGED <<store, issued, log, imp, del, fetch, exp, cache, nav, codec, got, db>>

\* startRouter(): the listener is installed and the initial route handled
startRouter ==
  /\ ~router.started
  /\ router' = Dispatched([router EXCEPT !.started = TRUE])
  /\ UNCHANGED <<store, issued, log, imp, del, fetch, exp, cache, nav, codec, got, db>>

\* the hash changes to path; the hashchange event runs handleRoute when the
\* listener is installed
HashChange(path) ==
  /\ path # router.path
  /\ router' = IF router.started THEN Dispatched([router EXCEPT !.path = path])
               ELSE [router EXCEPT !.path = path]
  /\ UNCHANGED <<store, issued, log, imp, del, fetch, exp, cache, nav, codec, got, db>>

\* replaceRoute(path): history.replaceState, which fires no hashchange, and one
\* call of handleRoute
ReplaceAndDispatch(path) ==
  /\ router' = Dispatched([router EXCEPT !.path = path])
  /\ UNCHANGED <<store, issued, log, imp, del, fetch, exp, cache, nav, codec, got, db>>

(* ---------------------------------------------------------------------- *)
(* db.ts: openDB and the cached connection                                 *)
(* ---------------------------------------------------------------------- *)

\* the store operations in flight at once, and the indexedDB.open requests
\* the model follows
MaxOps == 3
MaxOpens == 4
OpProcs == 1..MaxOps
\* an operation that has not called openDB; handle 0 is no connection
OpIdle == [pc |-> "idle", req |-> 0, handle |-> 0]
\* let dbInstance = null; no open request made, no connection opened
DbInit == [instance |-> 0, requests |-> 0, conns |-> {}, ops |-> [o \in OpProcs |-> OpIdle]]

\* a store operation calls openDB: the cached instance if there is one,
\* otherwise a new indexedDB.open request of its own
openDB(o) ==
  /\ db.ops[o].pc = "idle"
  /\ IF db.instance # 0
       THEN db' = [db EXCEPT !.ops[o] = [pc |-> "ready", req |-> 0, handle |-> db.instance]]
       ELSE /\ db.requests < MaxOpens
            /\ db' = [db EXCEPT !.requests = @ + 1,
                                !.ops[o] = [pc |-> "opening", req |-> db.requests + 1, handle |-> 0]]
  /\ UNCHANGED <<store, issued, log, imp, del, fetch, exp, cache, nav, codec, got, router>>

\* request.onsuccess: the request's connection becomes dbInstance and the
\* operation's handle
OpenSuccess(o) ==
  /\ db.ops[o].pc = "opening"
  /\ db' = [db EXCEPT !.instance = db.ops[o].req,
                      !.conns = @ \cup {db.ops[o].req},
                      !.ops[o] = [pc |-> "ready", req |-> 0, handle |-> db.ops[o].req]]
  /\ UNCHANGED <<store, issued, log, imp, del, fetch, exp, cache, nav, codec, got, router>>

\* request.onerror: the promise is rejected and the operation ends
OpenError(o) ==
  /\ db.ops[o].pc = "opening"
  /\ db' = [db EXCEPT !.ops[o] = OpIdle]
  /\ UNCHANGED <<store, issued, log, imp, del, fetch, exp, cache, nav, codec, got, router>>

\* the operation's transaction on its handle settles
OpSettle(o) ==
  /\ db.ops[o].pc = "ready"
  /\ db' = [db EXCEPT !.ops[o] = OpIdle]
  /\ UNCHANGED <<store, issued, log, imp, del, fetch, exp, cache, nav, codec, got, router>>

(* ---------------------------------------------------------------------- *)
(* Specifications                                                          *)
(* ---------------------------------------------------------------------- *)
Init ==
  /\ boards = EmptyStore
  /\ bookmarks = EmptyStore
  /\ metadata = EmptyStore
  /\ thumbnails = EmptyStore
  /\ issued = {}
  /\ log = <<>>
  /\ imp = [p \in ImportProcs |-> ImpIdle]
  /\ del = [t \in DelProcs |-> DelIdle]
  /\ fetch = [f \in FetchProcs |-> FetchIdle]
  /\ exp = [e \in ExpProcs |-> ExpIdle]
  /\ cache = CacheIdle
  /\ nav = NavInit
  /\ got = NoCall
  /\ router = RouterInit
  /\ db = DbInit
  /\ codec = CodecIdle

NextImport ==
  \/ \E p \in ImportProcs, kind \in {"link", "file"}, text \in LinkTexts :
       ImportStart(p, kind, text)
  \/ \E p \in ImportProcs : ImportDecode(p)
  \/ \E p \in ImportProcs : ImportCreateBoard(p)
  \/ \E p \in ImportProcs : ImportCreateBookmark(p)

SpecImport == Init /\ [][NextImport]_vars

\* the calls a user or a caller of the store can make
StoreCalls ==
  \/ \E name \in BoardNames : CreateBoard(name)
  \/ \E b \in BoardIds : CreateBookmark("u1", b, Undef)
  \/ \E t \in DelProcs, id \in BoardIds : StartDeleteBoard(t, id)
  \/ \E t \in DelProcs, id \in BookmarkIds : StartDeleteBookmark(t, id)

\* the steps of the delete calls in progress
DeleteSteps ==
  \/ \E t \in DelProcs : DeleteBoardList(t)
  \/ \E t \in DelProcs : DeleteMetadata(t)
  \/ \E t \in DelProcs : DeleteThumbnail(t)
  \/ \E t \in DelProcs : DeleteBookmarkRecord(t)
  \/ \E t \in DelProcs : DeleteBoardRecord(t)
  \/ \E t \in DelProcs : DeleteReturn(t)

\* the enrichment calls and their steps
FetchSteps ==
  \/ \E f \in FetchProcs, id \in BookmarkIds : StartFetch(f, id)
  \/ \E f \in FetchProcs, data \in Responses : FetchRespond(f, data)
  \/ \E f \in FetchProcs : FetchSave(f)
  \/ \E f \in FetchProcs : FetchFallbackGet(f)
  \/ \E f \in FetchProcs : FetchFallbackPut(f)
  \/ \E f \in FetchProcs : FetchReturn(f)

\* store operations and enrichment, interleaved at every await
Next == StoreCalls \/ DeleteSteps \/ FetchSteps
Spec == Init /\ [][Next]_vars

\* no delete call in progress
Quiet == \A t \in DelProcs : del[t].pc = "idle"

\* direct writes of the derived regions
CacheCalls ==
  \/ \E id \in BookmarkIds :
       SaveMetadata(id, FromResponse(id, bookmarks[id].url, RichResponse))
  \/ \E id \in BookmarkIds : SaveThumbnail(id)

\* the store operations alone, each call running to its end before the next is
\* made
NextSeq ==
  \/ Quiet /\ StoreCalls
  \/ Quiet /\ CacheCalls
  \/ DeleteSteps
SpecSeq == Init /\ [][NextSeq]_vars

\* the boards and the bookmarks the calls of a page are made on
CallBoards == {1}
CallBookmarks == {MaxBoards + 1, MaxBoards + 2}

\* the records update calls are made with
UpdateBoards == {Board(id, "B") : id \in CallBoards}
UpdateBookmarks == {Bookmark(id, "u2", 1, "n1", NoTags) : id \in CallBookmarks}

\* the operations of the store that take one transaction
SingleCalls ==
  \/ \E name \in BoardNames : CreateBoard(name)
  \/ \E b \in CallBoards : CreateBookmark("u1", b, Undef)
  \/ \E board \in UpdateBoards : updateBoard(board)
  \/ \E bookmark \in UpdateBookmarks : updateBookmark(bookmark)
  \/ \E id \in CallBookmarks :
       SaveMetadata(id, FromResponse(id, bookmarks[id].url, RichResponse))
  \/ \E id \in CallBookmarks : deleteMetadata(id)
  \/ \E id \in CallBookmarks : SaveThumbnail(id)
  \/ \E id \in CallBookmarks : deleteThumbnail(id)

\* the get and list operations
ReadCalls ==
  \/ \E id \in CallBoards : getBoard(id)
  \/ getAllBoards
  \/ \E id \in CallBookmarks : getBookmark(id)
  \/ \E b \in CallBoards : getBookmarksByBoard(b)
  \/ \E id \in CallBookmarks : getMetadata(id)
  \/ \E id \in CallBookmarks : getThumbnail(id)

\* no delete call in progress and no rows waiting for their caller
Settled == Quiet /\ got = NoCall

\* every operation of the store but deleteBoard, each call running to its end
\* before the next is made
NextStore ==
  \/ Settled /\ SingleCalls
  \/ Settled /\ ReadCalls
  \/ Settled /\ \E t \in DelProcs, id \in CallBookmarks : StartDeleteBookmark(t, id)
  \/ ReadReturn
  \/ \E t \in DelProcs : DeleteMetadata(t)
  \/ \E t \in DelProcs : DeleteThumbnail(t)
  \/ \E t \in DelProcs : DeleteBookmarkRecord(t)
  \/ \E t \in DelProcs : DeleteReturn(t)
SpecStore == Init /\ [][NextStore]_vars

\* the delete operations of the store, each call running to its end before the
\* next is made
NextDelete ==
  \/ NextSeq
  \/ Quiet /\ \E id \in BookmarkIds : deleteMetadata(id)
  \/ Quiet /\ \E id \in BookmarkIds : deleteThumbnail(id)
SpecDelete == Init /\ [][NextDelete]_vars

\* the payloads of the files imported next to the enrichment calls
FetchTexts == {Text(TRUE, TRUE, TRUE, d) : d \in {D1} \cup BadUrlData}

\* imports from files and the enrichment of the bookmarks they create
NextFetch ==
  \/ \E p \in ImportProcs, text \in FetchTexts : ImportStart(p, "file", text)
  \/ \E p \in ImportProcs : ImportDecode(p)
  \/ \E p \in ImportProcs : ImportCreateBoard(p)
  \/ \E p \in ImportProcs : ImportCreateBookmark(p)
  \/ FetchSteps
SpecFetch == Init /\ [][NextFetch]_vars

\* the payloads imported next to the cache and the export calls
ShareTexts == {Text(TRUE, TRUE, TRUE, d) : d \in {D2, D3}}

\* the steps of the export calls
ExportSteps ==
  \/ \E e \in ExpProcs, kind \in {"link", "file"}, b \in BoardIds : StartExport(e, kind, b)
  \/ \E e \in ExpProcs : ExportGetBoard(e)
  \/ \E e \in ExpProcs : ExportList(e)
  \/ \E e \in ExpProcs, stream \in CompressedStreams : ExportEncode(e, stream)
  \/ \E e \in ExpProcs : ExportReturn(e)

\* a board imported from a file, its derived records written, and the board
\* exported
NextExport ==
  \/ \E text \in ShareTexts : ImportStart("i1", "file", text)
  \/ \E p \in ImportProcs : ImportDecode(p)
  \/ \E p \in ImportProcs : ImportCreateBoard(p)
  \/ \E p \in ImportProcs : ImportCreateBookmark(p)
  \/ CacheCalls
  \/ ExportSteps
SpecExport == Init /\ [][NextExport]_vars

\* the payloads carried both as a link and as a file
TransportTexts ==
  {Text(TRUE, TRUE, TRUE, d) :
     d \in {D1, Data(2, "A", BmArray(<<E1>>)), Data(1, "A", BmMissing),
            Data(1, "A", BmArray(<<E1, NullEntry>>))}}
  \cup {Text(TRUE, TRUE, FALSE, D1)}

\* imports from links and from files next to exports to links and to files
NextTransport ==
  \/ \E p \in ImportProcs, kind \in {"link", "file"}, text \in TransportTexts :
       ImportStart(p, kind, text)
  \/ \E p \in ImportProcs : ImportDecode(p)
  \/ \E p \in ImportProcs : ImportCreateBoard(p)
  \/ \E p \in ImportProcs : ImportCreateBookmark(p)
  \/ ExportSteps
SpecTransport == Init /\ [][NextTransport]_vars

\* the derived regions written and cleared next to the imports
NextCache ==
  \/ \E p \in ImportProcs, kind \in {"link", "file"}, text \in ShareTexts :
       ImportStart(p, kind, text)
  \/ \E p \in ImportProcs : ImportDecode(p)
  \/ \E p \in ImportProcs : ImportCreateBoard(p)
  \/ \E p \in ImportProcs : ImportCreateBookmark(p)
  \/ CacheCalls
  \/ ClearCache
  \/ ClearCacheReturn
SpecCache == Init /\ [][NextCache]_vars

\* the codec alone: a payload to encode and decode again, or a text to decode
InitCodec ==
  /\ boards = EmptyStore
  /\ bookmarks = EmptyStore
  /\ metadata = EmptyStore
  /\ thumbnails = EmptyStore
  /\ issued = {}
  /\ log = <<>>
  /\ imp = [p \in ImportProcs |-> ImpIdle]
  /\ del = [t \in DelProcs |-> DelIdle]
  /\ fetch = [f \in FetchProcs |-> FetchIdle]
  /\ exp = [e \in ExpProcs |-> ExpIdle]
  /\ cache = CacheIdle
  /\ nav = NavInit
  /\ got = NoCall
  /\ router = RouterInit
  /\ db = DbInit
  /\ \/ \E p \in CodecPayloads : codec = [CodecIdle EXCEPT !.pc = "payload", !.p = p]
     \/ \E t \in CodecTexts : codec = [CodecIdle EXCEPT !.pc = "text", !.chars = t]

NextCodec ==
  \/ CodecStringify
  \/ \E b \in ByteSeqs : CodecCompress(b)
  \/ CodecToBase64Url
  \/ CodecFromBase64Url
  \/ CodecDecompress
SpecCodec == InitCodec /\ [][NextCodec]_vars

\* the tab: navigation, the import route and the imports it starts
NextNav ==
  \/ \E path \in {Home} \cup {BoardPath(b) : b \in BoardIds}
                  \cup {ImportPath(t) : t \in NavTexts} : Navigate(path)
  \/ Back
  \/ \E p \in ImportProcs : ImportDecode(p)
  \/ \E p \in ImportProcs : ImportCreateBoard(p)
  \/ \E p \in ImportProcs : ImportCreateBookmark(p)
  \/ \E p \in ImportProcs : ImportRouteSettle(p)
SpecNav == Init /\ [][NextNav]_vars

\* the router alone: registrations, hash changes and replaceRoute calls
NextRoute ==
  \/ \E pattern \in Patterns : addRoute(pattern)
  \/ onNotFound
  \/ startRouter
  \/ \E path \in HashPaths : HashChange(path)
  \/ \E path \in HashPaths : ReplaceAndDispatch(path)
SpecRoute == Init /\ [][NextRoute]_vars

\* the store operations' openDB calls alone
NextOpen ==
  \/ \E o \in OpProcs : openDB(o)
  \/ \E o \in OpProcs : OpenSuccess(o)
  \/ \E o \in OpProcs : OpenError(o)
  \/ \E o \in OpProcs : OpSettle(o)
SpecOpen == Init /\ [][NextOpen]_vars

(* ---------------------------------------------------------------------- *)
(* Properties                                                              *)
(* ---------------------------------------------------------------------- *)
\* the bookmarks of the store that belong to board b
Owned(region, b) == {id \in DOMAIN region : region[id].boardId = b}

Entries(c) == c.text.data.bookmarks.v

\* C1: an import that has failed has left no board and no bookmark of its own
\* in the store.
C1_ImportAtomic ==
  \A p \in ImportProcs :
    imp[p].pc = "failed" =>
      /\ imp[p].board \notin DOMAIN boards
      /\ Owned(bookmarks, imp[p].board) = {}

\* a link text on which base64url decoding, decompression or JSON parsing fails
Malformed(text) == ~text.atob \/ ~text.inflate \/ ~text.parse

\* C2: every step of importBoard on a malformed payload text leaves the four
\* store regions unchanged and ends in a failure with an error; the call never
\* gets as far as createBoard.
C2_MalformedRejected ==
  [][\A p \in ImportProcs :
       (imp'[p] # imp[p] /\ imp'[p].kind = "link" /\ Malformed(imp'[p].text)) =>
         /\ imp'[p].pc \in {"decode", "failed"}
         /\ imp[p].pc = "decode" => imp'[p].pc = "failed"
         /\ imp'[p].pc = "failed" => imp'[p].err # "none"
         /\ UNCHANGED store]_vars

\* importBoard has failed on a text that does not inflate, next to a board that
\* another import has written
C2_Witness ==
  \E p \in ImportProcs :
    /\ imp[p].pc = "failed" /\ imp[p].kind = "link" /\ ~imp[p].text.inflate
    /\ DOMAIN boards # {}

\* a payload that parses as JSON with version 1 and is structurally invalid
Invalid(data) ==
  /\ data.version = SupportedVersion
  /\ \/ data.name = Undef
     \/ data.bookmarks.t # "array"
     \/ \E i \in 1 .. Len(data.bookmarks.v) :
          data.bookmarks.v[i].t = "null" \/ data.bookmarks.v[i].url = Undef

\* C3: an import of a structurally invalid version 1 payload fails and leaves
\* no board and no bookmark of its own in the store.
C3_NoPartialBoard ==
  \A p \in ImportProcs :
    (imp[p].pc \in {"done", "failed"} /\ imp[p].text.parse /\ Invalid(imp[p].text.data)) =>
      /\ imp[p].pc = "failed"
      /\ imp[p].board \notin DOMAIN boards
      /\ Owned(bookmarks, imp[p].board) = {}

\* the text reaches JSON.parse and parses
Parses(c) == c.text.parse /\ (c.kind = "file" \/ (c.text.atob /\ c.text.inflate))

\* C4: an import whose decoded payload has a version other than 1 (2, or none)
\* fails with the unsupported-version error, and none of its steps writes to a
\* store region.
C4_VersionGate ==
  [][\A p \in ImportProcs :
       (imp'[p] # imp[p] /\ Parses(imp'[p]) /\ imp'[p].text.data.version # 1) =>
         /\ imp'[p].pc \in {"decode", "failed"}
         /\ imp[p].pc = "decode" => imp'[p].pc = "failed"
         /\ imp'[p].pc = "failed" => imp'[p].err = "Unsupported export version"
         /\ UNCHANGED store]_vars

\* importFromFile has failed on a file without a version, next to a board that
\* another import has written
C4_Witness ==
  \E p \in ImportProcs :
    /\ imp[p].pc = "failed" /\ imp[p].kind = "file"
    /\ imp[p].text.parse /\ imp[p].text.data.version = 0
    /\ DOMAIN boards # {}

\* the board of a finished import is in the store under the payload's name and
\* owns as many bookmarks as the payload has entries
OwnBoard(c) ==
  /\ c.board \in DOMAIN boards
  /\ boards[c.board] = Board(c.board, c.text.data.name)
  /\ Cardinality(Owned(bookmarks, c.board)) = Len(Entries(c))

\* C5: two finished imports have two different boards, also when their payloads
\* are the same, and each board stays in the store as its import wrote it, with
\* its own bookmarks, whatever the other import does.
C5_NoMerge ==
  \A p, q \in ImportProcs :
    (p # q /\ imp[p].pc = "done" /\ imp[q].pc = "done") =>
      /\ imp[p].board # imp[q].board
      /\ OwnBoard(imp[p])
      /\ OwnBoard(imp[q])

\* the same one-bookmark payload has been imported twice
C5_Witness ==
  \E p, q \in ImportProcs :
    /\ p # q /\ imp[p].pc = "done" /\ imp[q].pc = "done"
    /\ imp[p].text = imp[q].text /\ Len(Entries(imp[p])) = 1
    /\ imp[p].board # imp[q].board

\* the ids of the bookmarks getBookmarksByBoard(b) returns, in its order
Listing(region, b) ==
  LET rows == IndexGetAll(region, b) IN [i \in 1 .. Len(rows) |-> rows[i].id]

\* C6: getBookmarksByBoard(b) returns the bookmarks of board b in the order in
\* which they were created.
C6_InsertionOrder ==
  \A b \in BoardIds :
    Listing(bookmarks, b) = SelectSeq(log, LAMBDA id : bookmarks[id].boardId = b)

\* C7: after a successful import the new board has the payload's name and its
\* listing has the payload's entries, position by position, with their url,
\* notes and tags.
C7_ImportPreserves ==
  \A p \in ImportProcs :
    imp[p].pc = "done" =>
      LET rows == IndexGetAll(bookmarks, imp[p].board)
          es == Entries(imp[p])
      IN /\ imp[p].board \in DOMAIN boards
         /\ boards[imp[p].board].name = imp[p].text.data.name
         /\ Len(rows) = Len(es)
         /\ \A i \in 1 .. Len(rows) :
              /\ rows[i].url = es[i].url
              /\ rows[i].notes = es[i].notes
              /\ rows[i].tags = es[i].tags

\* C8: with the calls made one after the other, no step of deleteBoard(id)
\* changes a record of another board, and when deleteBoard(id) completes the
\* board is gone, no bookmark of it is left (by id or in the listing of the
\* board), and every metadata and thumbnail record left belongs to a bookmark
\* of another board.
C8_Cascade ==
  [][\A t \in DelProcs :
       (del[t].op = "board" /\ Running(del[t])) =>
         /\ \A b \in DOMAIN boards \ {del[t].id} :
              b \in DOMAIN boards' /\ boards'[b] = boards[b]
         /\ \A id \in DOMAIN bookmarks \ Owned(bookmarks, del[t].id) :
              /\ id \in DOMAIN bookmarks' /\ bookmarks'[id] = bookmarks[id]
              /\ (id \in DOMAIN metadata) = (id \in DOMAIN metadata')
              /\ id \in DOMAIN metadata => metadata'[id] = metadata[id]
              /\ (id \in DOMAIN thumbnails) = (id \in DOMAIN thumbnails')
         /\ del'[t].pc = "done" =>
              /\ del[t].id \notin DOMAIN boards'
              /\ \A j \in 1 .. Len(del[t].listed) :
                   del[t].listed[j] \notin DOMAIN bookmarks'
              /\ Listing(bookmarks', del[t].id) = <<>>
              /\ \A id \in DOMAIN metadata' \cup DOMAIN thumbnails' :
                   id \in DOMAIN bookmarks' /\ bookmarks'[id].boardId # del[t].id]_vars

\* deleteBoard has completed on a board with two bookmarks
C8_Witness ==
  \E t \in DelProcs :
    del[t].pc = "done" /\ del[t].op = "board" /\ Len(del[t].listed) = 2

\* C9: while deleteBoard runs and after it has failed, the board is in the
\* store with all the bookmarks it listed, or the board and all of them are gone.
C9_DeleteBoardAtomic ==
  \A t \in DelProcs :
    (del[t].op = "board" /\ del[t].pc \notin {"idle", "list"}) =>
      \/ /\ del[t].id \in DOMAIN boards
         /\ \A j \in 1 .. Len(del[t].listed) : del[t].listed[j] \in DOMAIN bookmarks
      \/ /\ del[t].id \notin DOMAIN boards
         /\ \A j \in 1 .. Len(del[t].listed) : del[t].listed[j] \notin DOMAIN bookmarks

\* C10: once a delete of bookmark id and a fetchMetadata for id have both
\* finished, no metadata and no thumbnail record of id exists.
C10_NoResurrection ==
  \A f \in FetchProcs, t \in DelProcs :
    ( /\ fetch[f].pc = "done"
      /\ del[t].pc = "done"
      /\ \E j \in 1 .. Len(del[t].listed) : del[t].listed[j] = fetch[f].id ) =>
      fetch[f].id \notin DOMAIN metadata \cup DOMAIN thumbnails

\* the fields of a metadata record that are populated
Populated(rec) ==
  {k \in {"title", "siteName"} : rec[k] # Undef}
    \cup {k \in {"faviconUrl", "ogImageUrl"} : rec[k] # NoUrl}

\* C11: no step replaces the metadata record of a bookmark with a record whose
\* populated fields are a strict subset of the populated fields of the record
\* it replaces.
C11_NeverPoorer ==
  [][\A id \in DOMAIN metadata \cap DOMAIN metadata' :
       ~ ( /\ Populated(metadata'[id]) \subseteq Populated(metadata[id])
           /\ Populated(metadata'[id]) # Populated(metadata[id]) )]_vars

\* C12: a fetchMetadata call whose network call failed and whose store requests
\* all succeeded has resolved with a metadata record of its bookmark in the
\* store: the one that was there, or the fallback record.
C12_FallbackWritten ==
  \A f \in FetchProcs :
    (fetch[f].pc = "done" /\ fetch[f].netfail /\ ~fetch[f].err) =>
      fetch[f].id \in DOMAIN metadata

\* C13: an exportBoard call that got as far as encoding has returned the
\* too-large outcome when the encoded text is longer than MAX_PAYLOAD_SIZE, and
\* a link when it is not; it has not thrown.
C13_SizeBudget ==
  \A e \in ExpProcs :
    (exp[e].pc \in {"done", "thrown"} /\ exp[e].stream.len > 0) =>
      /\ exp[e].pc = "done"
      /\ Base64UrlLen(exp[e].stream.len) > MAX_PAYLOAD_SIZE => exp[e].out = "too_large"
      /\ Base64UrlLen(exp[e].stream.len) <= MAX_PAYLOAD_SIZE => exp[e].out = "url"

\* C14: the payload exportBoard and exportToFile build has version 1, the name
\* of the board, and one entry per listed bookmark made of the canonical fields
\* only: the url, the notes when they are a non-empty text, the tags when the
\* list is not empty; no id, no boardId, and nothing of the derived regions.
C14_CanonicalOnly ==
  [][\A e \in ExpProcs :
       (exp[e].pc = "list" /\ exp'[e].pc \in {"compress", "done"}) =>
         LET rows == IndexGetAll(bookmarks, exp[e].board)
             pl == exp'[e].payload
         IN /\ DOMAIN pl = {"version", "name", "bookmarks"}
            /\ pl.version = 1
            /\ pl.name = exp[e].name
            /\ pl.bookmarks.t = "array"
            /\ Len(pl.bookmarks.v) = Len(rows)
            /\ \A i \in 1 .. Len(rows) :
                 LET x == pl.bookmarks.v[i]
                 IN /\ DOMAIN x = {"t", "url", "notes", "tags"}
                    /\ x.url = rows[i].url
                    /\ x.notes = (IF rows[i].notes \in {Undef, ""} THEN Undef
                                  ELSE rows[i].notes)
                    /\ x.tags = (IF rows[i].tags \in {NoTags, <<>>} THEN NoTags
                                 ELSE rows[i].tags)]_vars

\* a board has been exported whose bookmark has an empty notes text, a metadata
\* record and a thumbnail
C14_Witness ==
  \E e \in ExpProcs, id \in DOMAIN bookmarks :
    /\ exp[e].pc = "done"
    /\ bookmarks[id].boardId = exp[e].board
    /\ bookmarks[id].notes = ""
    /\ id \in DOMAIN metadata \cap DOMAIN thumbnails
    /\ Len(exp[e].payload.bookmarks.v) = 1
    /\ exp[e].payload.bookmarks.v[1].notes = Undef

\* C15: no step of importBoard or importFromFile changes the metadata or the
\* thumbnails region, and a bookmark an import has just created has no metadata
\* and no thumbnail record.
C15_ImportFrame ==
  [][\A p \in ImportProcs :
       imp'[p] # imp[p] =>
         /\ UNCHANGED <<metadata, thumbnails>>
         /\ \A id \in DOMAIN bookmarks' \ DOMAIN bookmarks :
              id \notin DOMAIN metadata' \cup DOMAIN thumbnails']_vars

\* an import has completed next to a board whose bookmark has a metadata record
\* and a thumbnail, and the bookmarks it created have neither
C15_Witness ==
  \E p \in ImportProcs :
    /\ imp[p].pc = "done"
    /\ Owned(bookmarks, imp[p].board) # {}
    /\ \A id \in Owned(bookmarks, imp[p].board) :
         id \notin DOMAIN metadata \cup DOMAIN thumbnails
    /\ \E id \in DOMAIN metadata \cap DOMAIN thumbnails :
         id \in DOMAIN bookmarks /\ bookmarks[id].boardId # imp[p].board

\* C18: a clearCache call either empties the metadata and the thumbnails region
\* together and resolves, or leaves both as they were and rejects; it leaves
\* the boards and the bookmarks region as they were.
C18_ClearCacheTotal ==
  [][(cache.pc = "idle" /\ cache'.pc # "idle") =>
       /\ UNCHANGED <<boards, bookmarks>>
       /\ \/ /\ cache'.pc = "resolved"
             /\ metadata' = EmptyStore
             /\ thumbnails' = EmptyStore
          \/ /\ cache'.pc = "rejected"
             /\ UNCHANGED <<metadata, thumbnails>>]_vars

\* clearCache has resolved on a store that held metadata and thumbnails, and
\* whose bookmarks are still there
C18_Witness ==
  /\ cache.pc = "resolved"
  /\ cache.had
  /\ metadata = EmptyStore
  /\ thumbnails = EmptyStore
  /\ DOMAIN bookmarks # {}

\* C16: a valid payload that is serialized, compressed, base64url encoded and
\* then decoded, decompressed and parsed comes back equal, field by field, with
\* the absent notes and tags still absent; no stage fails.
C16_RoundTrip ==
  (codec.stream # <<>> /\ codec.pc \in {"parsed", "failed"}) =>
    /\ codec.pc = "parsed"
    /\ codec.bytes = codec.stream
    /\ codec.out = codec.p
    /\ \A i \in 1 .. Len(codec.p.bookmarks.v) :
         /\ codec.p.bookmarks.v[i].notes = Undef => codec.out.bookmarks.v[i].notes = Undef
         /\ codec.p.bookmarks.v[i].tags = NoTags => codec.out.bookmarks.v[i].tags = NoTags

\* a payload with a bookmark without notes has come back through a text whose
\* padding was removed and that holds a "-"
C16_Witness ==
  /\ codec.pc = "parsed"
  /\ Len(codec.stream) % 3 = 1
  /\ \E i \in 1 .. Len(codec.chars) : codec.chars[i] = "-"
  /\ Len(codec.p.bookmarks.v) = 2
  /\ codec.p.bookmarks.v[1].notes = Undef

\* C17: a text fromBase64Url returns bytes for is the text toBase64Url gives
\* for those bytes; every other text makes it fail.
C17_RejectsMalformed ==
  (codec.stream = <<>> /\ codec.pc = "bytes") =>
    toBase64Url(codec.bytes) = codec.chars

\* C19: when the handler of the import route goes on after its import, the
\* session history keeps its length and the entry shown becomes the new board
\* (after a success) or the board list, with an alert (after a failure); the
\* entry that held the import path no longer holds it.
C19_ImportRouteReplaced ==
  [][\A p \in ImportProcs :
       (nav.handling[p] # 0 /\ nav'.handling[p] = 0) =>
         /\ Len(nav'.entries) = Len(nav.entries)
         /\ nav'.idx = nav.idx
         /\ imp[p].pc = "done" => Shown(nav') = BoardPath(imp[p].board)
         /\ imp[p].pc = "failed" => Shown(nav') = Home /\ nav'.alerted
         /\ ~ ( /\ nav.handling[p] <= Len(nav'.entries)
                /\ nav'.entries[nav.handling[p]] = ImportPath(imp[p].text) )]_vars

\* C20: the url of every bookmark in the store parses as an absolute url.
C20_UrlsParse ==
  \A id \in DOMAIN bookmarks : UrlParses(bookmarks[id].url)

\* C21: an updateBoard or an updateBookmark call with an identifier that is not
\* in the store leaves the store as it was: an update never creates a record.
C21_UpdateNeverCreates ==
  [][ /\ \A board \in UpdateBoards :
           (board.id \notin DOMAIN boards /\ updateBoard(board)) => UNCHANGED store
      /\ \A bookmark \in UpdateBookmarks :
           (bookmark.id \notin DOMAIN bookmarks /\ updateBookmark(bookmark)) =>
             UNCHANGED store ]_vars

C23_ReferentialIntegrity ==
  (\A t \in DelProcs : del[t].pc \in {"idle", "done"}) =>
    \A id \in DOMAIN bookmarks : bookmarks[id].boardId \in DOMAIN boards

\* what the single-transaction operations leave alone: each one changes the
\* region it addresses and no other
SingleRegion ==
  /\ (\E name \in BoardNames : CreateBoard(name)) =>
       UNCHANGED <<bookmarks, metadata, thumbnails>>
  /\ (\E board \in UpdateBoards : updateBoard(board)) =>
       UNCHANGED <<bookmarks, metadata, thumbnails>>
  /\ (\E b \in CallBoards : CreateBookmark("u1", b, Undef)) =>
       UNCHANGED <<boards, metadata, thumbnails>>
  /\ (\E bookmark \in UpdateBookmarks : updateBookmark(bookmark)) =>
       UNCHANGED <<boards, metadata, thumbnails>>
  /\ (\E id \in CallBookmarks :
        SaveMetadata(id, FromResponse(id, bookmarks[id].url, RichResponse))) =>
       UNCHANGED <<boards, bookmarks, thumbnails>>
  /\ (\E id \in CallBookmarks : deleteMetadata(id)) =>
       UNCHANGED <<boards, bookmarks, thumbnails>>
  /\ (\E id \in CallBookmarks : SaveThumbnail(id)) =>
       UNCHANGED <<boards, bookmarks, metadata>>
  /\ (\E id \in CallBookmarks : deleteThumbnail(id)) =>
       UNCHANGED <<boards, bookmarks, metadata>>
  /\ ReadCalls => UNCHANGED store

\* the record of key id in a region is the same before and after the step
Kept(region, region2, id) ==
  /\ (id \in DOMAIN region) = (id \in DOMAIN region2)
  /\ id \in DOMAIN region => region[id] = region2[id]

\* C24 (as stated): every operation other than deleteBoard changes only the
\* region it addresses; deleteBookmark changes only bookmarks.
C24_OneRegion ==
  [][ /\ SingleRegion
      /\ \A t \in DelProcs :
           (Running(del[t]) /\ del[t].op = "bookmark") =>
             UNCHANGED <<boards, metadata, thumbnails>> ]_vars

\* C24 (amended): every operation other than deleteBoard changes only the region
\* it addresses, except that deleteBookmark(id) changes the bookmarks region and
\* the metadata and thumbnail records of id, and nothing else.
C24_OneRegionOrOwnDerived ==
  [][ /\ SingleRegion
      /\ \A t \in DelProcs :
           (Running(del[t]) /\ del[t].op = "bookmark") =>
             /\ UNCHANGED boards
             /\ \A id \in BookmarkIds \ {del[t].id} :
                  /\ Kept(bookmarks, bookmarks', id)
                  /\ Kept(metadata, metadata', id)
                  /\ Kept(thumbnails, thumbnails', id) ]_vars

\* deleteBookmark has completed on a bookmark that was in the store, next to
\* another bookmark that still has its metadata and its thumbnail, after a get
\* call returned a row
C24_Witness ==
  /\ \E t \in DelProcs : del[t].pc = "done" /\ del[t].op = "bookmark" /\ del[t].had
  /\ \E id \in DOMAIN bookmarks : id \in DOMAIN metadata /\ id \in DOMAIN thumbnails
  /\ \E id \in DOMAIN boards : boards[id].name = "B"

\* C25: when deleteBookmark(id) completes, with no other call in between, no
\* bookmark, metadata or thumbnail record of id is in the store, and no step of
\* the call changed a board or a record of another bookmark.
C25_DeleteBookmarkComplete ==
  [][ \A t \in DelProcs :
        (Running(del[t]) /\ del[t].op = "bookmark") =>
          /\ UNCHANGED boards
          /\ \A id \in DOMAIN bookmarks \ {del[t].id} :
               /\ Kept(bookmarks, bookmarks', id)
               /\ Kept(metadata, metadata', id)
               /\ Kept(thumbnails, thumbnails', id)
          /\ del'[t].pc = "done" =>
               /\ del[t].id \notin DOMAIN bookmarks'
               /\ del[t].id \notin DOMAIN metadata'
               /\ del[t].id \notin DOMAIN thumbnails' ]_vars

\* deleteBookmark has completed on a bookmark of the store while another
\* bookmark keeps its metadata and its thumbnail
C25_Witness ==
  \E t \in DelProcs :
    /\ del[t].pc = "done" /\ del[t].op = "bookmark" /\ del[t].had
    /\ \E id \in DOMAIN bookmarks :
         /\ id # del[t].id
         /\ id \in DOMAIN metadata /\ id \in DOMAIN thumbnails
         /\ bookmarks[id].boardId \in DOMAIN boards

\* what an import wrote for its board: url, notes and tags of its bookmarks in
\* the order it created them
Created(c) ==
  LET ids == SelectSeq(log, LAMBDA id : bookmarks[id].boardId = c.board)
  IN [i \in 1 .. Len(ids) |->
        <<bookmarks[ids[i]].url, bookmarks[ids[i]].notes, bookmarks[ids[i]].tags>>]

\* two settled imports ended the same way and wrote the same
SameOutcome(c, d) ==
  /\ c.pc = d.pc /\ c.err = d.err /\ c.k = d.k
  /\ (c.board \in DOMAIN boards) = (d.board \in DOMAIN boards)
  /\ c.board \in DOMAIN boards => boards[c.board].name = boards[d.board].name
  /\ Created(c) = Created(d)

\* C26: importBoard on the link encoding of a JSON text and importFromFile on
\* that text, when no store request errors, end the same way: the same error, or
\* one new board of the payload's name with the same bookmarks in the same
\* order; and the JSON text exportToFile writes parses to the payload exportBoard
\* encodes for the same board and the same listing.
C26_SameTransport ==
  /\ [](\A p, q \in ImportProcs :
          ( /\ imp[p].kind = "link" /\ imp[q].kind = "file"
            /\ imp[p].pc \in {"done", "failed"} /\ imp[q].pc \in {"done", "failed"}
            /\ imp[p].text.atob /\ imp[p].text.inflate
            /\ imp[p].text.parse = imp[q].text.parse
            /\ imp[p].text.data = imp[q].text.data
            /\ imp[p].err # "DOMException" /\ imp[q].err # "DOMException" ) =>
            SameOutcome(imp[p], imp[q]))
  /\ [][\A e \in ExpProcs :
          (exp[e].pc = "list" /\ exp'[e].pc \in {"compress", "done"}) =>
            /\ exp'[e].payload =
                 BuildPayload(exp[e].name, IndexGetAll(bookmarks, exp[e].board))
            /\ JsonParse(exp'[e].json) = exp'[e].payload]_vars

\* the same one-bookmark payload imported from a link and from a file, and one
\* of the two boards exported to a file
C26_Witness ==
  /\ \E p, q \in ImportProcs :
       /\ imp[p].kind = "link" /\ imp[q].kind = "file"
       /\ imp[p].pc = "done" /\ imp[q].pc = "done"
       /\ imp[p].text = imp[q].text /\ Len(Entries(imp[p])) = 1
  /\ \E e \in ExpProcs :
       /\ exp[e].pc = "done" /\ exp[e].kind = "file"
       /\ Len(exp[e].payload.bookmarks.v) = 1

\* C27: no step of fetchMetadata(bookmarkId, url) changes a board, a bookmark or
\* a thumbnail, or the metadata record of another bookmark, however the call
\* ends.
C27_EnrichmentFrame ==
  [][\A f \in FetchProcs :
       fetch'[f] # fetch[f] =>
         /\ UNCHANGED <<boards, bookmarks, thumbnails>>
         /\ \A id \in BookmarkIds \ {fetch[f].id} : Kept(metadata, metadata', id)]_vars

\* a fetchMetadata call has written the metadata record of its bookmark next to
\* a bookmark that has none
C27_Witness ==
  \E f \in FetchProcs :
    /\ fetch[f].pc = "done"
    /\ fetch[f].id \in DOMAIN metadata /\ fetch[f].id \in DOMAIN bookmarks
    /\ \E id \in DOMAIN bookmarks : id \notin DOMAIN metadata
    /\ boards # EmptyStore

\* C28: an import writes nothing before its text is decoded and its version
\* checked; then it adds one board, once; then one bookmark for each entry of the
\* payload in payload order, the next one only after the one before was added;
\* it repeats no createBoard and no createBookmark, and after its first failure
\* it takes no further step.
C28_ImportStepOrder ==
  [][(UNCHANGED imp => UNCHANGED store) /\ \A p \in ImportProcs :
       LET c == imp[p]
           d == imp'[p]
       IN /\ c.pc \in {"idle", "decode"} => (d # c => UNCHANGED store)
          /\ c.pc \in {"done", "failed"} => d = c
          /\ (c.pc = "createBoard" /\ d # c) =>
               /\ UNCHANGED <<bookmarks, metadata, thumbnails>>
               /\ \/ d.pc = "failed" /\ d.err = "DOMException" /\ UNCHANGED boards
                  \/ /\ c.board = 0 /\ d.board \notin DOMAIN boards
                     /\ boards' = StorePut(boards, d.board, Board(d.board, c.text.data.name))
                     /\ d.k = 1
          /\ (c.pc = "createBookmark" /\ d # c) =>
               /\ UNCHANGED <<boards, metadata, thumbnails>>
               /\ d.board = c.board
               /\ \/ d.pc = "failed" /\ d.err = "DOMException" /\ UNCHANGED bookmarks
                  \/ /\ d.k = c.k + 1
                     /\ \E id \in BookmarkIds \ DOMAIN bookmarks :
                          bookmarks' = StorePut(bookmarks, id,
                            Bookmark(id, Entries(c)[c.k].url, c.board,
                                     Entries(c)[c.k].notes, Entries(c)[c.k].tags))
                     /\ d.pc = "done" <=> c.k = Len(Entries(c))]_vars

\* an import of a two-entry payload has created its board and both bookmarks
C28_Witness ==
  \E p \in ImportProcs :
    /\ imp[p].pc = "done" /\ Len(Entries(imp[p])) = 2 /\ imp[p].k = 3
    /\ Cardinality(Owned(bookmarks, imp[p].board)) = 2

\* url, notes and tags of the entries of an import's payload, in payload order
PayloadEntries(c) ==
  [i \in 1 .. Len(Entries(c)) |->
     <<Entries(c)[i].url, Entries(c)[i].notes, Entries(c)[i].tags>>]

\* C29: when two imports have both completed, they have two different boards,
\* and the bookmarks filed under each board are the entries of that import's own
\* payload, one bookmark for each entry.
C29_NoMixing ==
  \A p, q \in ImportProcs :
    (p # q /\ imp[p].pc = "done" /\ imp[q].pc = "done") =>
      /\ imp[p].board # imp[q].board
      /\ Created(imp[p]) = PayloadEntries(imp[p])
      /\ Created(imp[q]) = PayloadEntries(imp[q])

\* two imports of different one-entry payloads have completed after running
\* side by side
C29_Witness ==
  \E p, q \in ImportProcs :
    /\ p # q /\ imp[p].pc = "done" /\ imp[q].pc = "done"
    /\ imp[p].text.data = D1 /\ imp[q].text.data = D3
    /\ imp[p].board < imp[q].board
    /\ \E x \in Owned(bookmarks, imp[p].board), y \in Owned(bookmarks, imp[q].board) : y < x

\* C30: no step of exportBoard or exportToFile changes a store region, whatever
\* the outcome; and when the board is not in the store as getBoard settles, the
\* call throws, with 'Board not found' unless the store request itself errored.
C30_ExportReadOnly ==
  [][\A e \in ExpProcs :
       exp'[e] # exp[e] =>
         /\ UNCHANGED store
         /\ (exp[e].pc = "getBoard" /\ exp[e].board \notin DOMAIN boards) =>
              /\ exp'[e].pc = "thrown"
              /\ exp'[e].out \in {"Board not found", "DOMException"}
         /\ (exp'[e].pc = "thrown" /\ exp'[e].out = "Board not found") =>
              exp[e].board \notin DOMAIN boards]_vars

\* an export of a board that is not in the store has thrown 'Board not found'
\* while the store holds a board with a bookmark and its derived records
C30_Witness ==
  /\ \E e \in ExpProcs :
       /\ exp[e].pc = "thrown" /\ exp[e].out = "Board not found"
       /\ exp[e].board \notin DOMAIN boards
  /\ boards # EmptyStore /\ bookmarks # EmptyStore
  /\ metadata # EmptyStore /\ thumbnails # EmptyStore

\* C32: while a deleteBookmark call runs, and in the state it leaves when one of
\* its steps fails, every metadata and every thumbnail record belongs to a
\* bookmark that is in the store (no other writer of the derived regions runs
\* meanwhile).
C32_DerivedFirst ==
  \A t \in DelProcs :
    (del[t].op = "bookmark" /\ del[t].pc # "idle") =>
      \A id \in DOMAIN metadata \cup DOMAIN thumbnails : id \in DOMAIN bookmarks

\* deleteBookmark has failed on its thumbnail or its bookmark delete: the
\* bookmark is still in the store and its metadata record is gone, while another
\* bookmark keeps its metadata
C32_Witness ==
  \E t \in DelProcs :
    /\ del[t].op = "bookmark" /\ del[t].pc = "failed" /\ del[t].had
    /\ del[t].id \in DOMAIN bookmarks /\ del[t].id \notin DOMAIN metadata
    /\ del[t].id \in DOMAIN thumbnails
    /\ \E id \in DOMAIN metadata : id # del[t].id

\* C33: deleteBoard deletes the board record only after every bookmark of its
\* listing is deleted; until then, and when the call has failed part-way, the
\* board record is in the store and every bookmark's boardId names a board of
\* the store.
C33_ChildrenFirst ==
  /\ [](\A t \in DelProcs :
          (del[t].op = "board" /\ del[t].had /\ del[t].pc \notin {"idle", "done"}) =>
            /\ del[t].id \in DOMAIN boards
            /\ \A id \in DOMAIN bookmarks : bookmarks[id].boardId \in DOMAIN boards)
  /\ [][\A t \in DelProcs :
          (del[t].op = "board" /\ del[t].id \in DOMAIN boards
             /\ del[t].id \notin DOMAIN boards') =>
            /\ del[t].pc = "deleteBoard"
            /\ \A j \in 1 .. Len(del[t].listed) : del[t].listed[j] \notin DOMAIN bookmarks]_vars

\* deleteBoard has failed after deleting the first of the two bookmarks it
\* listed: the board and the second bookmark are still in the store
C33_Witness ==
  \E t \in DelProcs :
    /\ del[t].op = "board" /\ del[t].pc = "failed" /\ Len(del[t].listed) = 2
    /\ del[t].i = 2
    /\ del[t].id \in DOMAIN boards
    /\ del[t].listed[1] \notin DOMAIN bookmarks /\ del[t].listed[2] \in DOMAIN bookmarks

\* C34: when saveFallbackMetadata finds a metadata record of the bookmark, the
\* call writes nothing and the record stays as it is; the fallback record is
\* written only after a lookup that found no record, onto no record.
C34_FallbackKeepsRecord ==
  [][\A f \in FetchProcs :
       fetch'[f] # fetch[f] =>
         /\ (fetch[f].pc = "fallbackGet" /\ fetch[f].id \in DOMAIN metadata) =>
              /\ UNCHANGED metadata
              /\ fetch'[f].pc \in {"done", "fallbackGet"}
         /\ fetch'[f].pc = "fallbackPut" =>
              fetch[f].pc = "fallbackGet" /\ fetch[f].id \notin DOMAIN metadata
         /\ (fetch[f].pc = "fallbackPut" /\ metadata' # metadata) =>
              /\ fetch[f].id \notin DOMAIN metadata
              /\ metadata' = StorePut(metadata, fetch[f].id,
                               FallbackMetadata(fetch[f].id, getFaviconUrl(fetch[f].url)))]_vars

\* a fetchMetadata call whose network call failed has ended and the record an
\* earlier call fetched is in the store
C34_Witness ==
  \E f \in FetchProcs :
    /\ fetch[f].pc = "done" /\ fetch[f].netfail
    /\ fetch[f].id \in DOMAIN metadata
    /\ metadata[fetch[f].id] = FromResponse(fetch[f].id, fetch[f].url, RichResponse)

\* a payload that an export yields: every entry of it is what ExportEntry makes
\* of a bookmark with the entry's url, notes and tags
Exported(data) ==
  /\ data.version = 1 /\ data.bookmarks.t = "array"
  /\ \A i \in 1 .. Len(data.bookmarks.v) :
       LET x == data.bookmarks.v[i]
       IN x.t = "object" /\ x = ExportEntry(Bookmark(0, x.url, 0, x.notes, x.tags))

\* C31: the export of a board that a completed import made from an exported
\* payload is that payload again: the same name and the same entries in the same
\* order.
C31_ExportIdempotent ==
  [][\A e \in ExpProcs, p \in ImportProcs :
       ( /\ exp[e].pc = "list" /\ exp'[e].pc \in {"compress", "done"}
         /\ imp[p].pc = "done" /\ imp[p].board = exp[e].board
         /\ Exported(imp[p].text.data) ) =>
         exp'[e].payload = imp[p].text.data]_vars

\* the handler the claim names for a path: the first registered route that
\* matches, else the not-found handler when one is registered
Expected(r) ==
  LET hits == {i \in 1 .. Len(r.routes) : Matches(r.routes[i], r.path)}
  IN IF hits # {} THEN <<CHOOSE i \in hits : \A j \in hits : i <= j>>
     ELSE IF r.notFound THEN <<0>> ELSE <<>>

\* C35: every handleRoute call (of startRouter, of a hashchange event, of
\* replaceRoute) calls the handler of the first registered route that matches the
\* path, or the not-found handler when no route matches and one is registered,
\* and no other handler.
C35_OneHandler ==
  [][ ( \/ startRouter
        \/ \E path \in HashPaths : router.started /\ HashChange(path)
        \/ \E path \in HashPaths : ReplaceAndDispatch(path) ) =>
        router'.called = Expected(router') ]_vars

\* C36: the store handle is a single lazily-initialised instance: over any
\* interleaving of store operations, at most one database connection is
\* opened, and every operation that holds a handle holds dbInstance.
C36_SingleConnection ==
  /\ Cardinality(db.conns) <= 1
  /\ \A o \in OpProcs : db.ops[o].pc = "ready" => db.ops[o].handle = db.instance

====
